---------------------------- MODULE Spec2Model ----------------------------
(***************************************************************************)
(* KeySearch: coordinator / worker coordination core.                      *)
(*                                                                         *)
(*   backend/coordinator/app/fuse.py        merge_partial_index            *)
(*   backend/coordinator/app/task_queue.py  dispatcher, results listener   *)
(*   backend/coordinator/app/main.py        global index, pending set      *)
(*   backend/worker/worker.py               worker loop, heartbeat         *)
(*   backend/shared/text_utils.py           normalize_text                 *)
(*                                                                         *)
(* Python dicts are functions whose DOMAIN is the set of keys, so that     *)
(* equality is dict equality (insertion order is not observable).          *)
(***************************************************************************)
EXTENDS Integers, Sequences, FiniteSets, TLC

(***************************************************************************)
(* Bounds of the model.                                                    *)
(***************************************************************************)
\* largest frequency a directly supplied partial index may carry
MaxFreq == 1
\* files visited by the requests of a run
MaxDispatch == 2
\* records published by others than the workers
MaxForeign == 1
\* status threads one worker process may have started
MaxThreads == 2
\* messages published on the results channel outside any dispatch
MaxLate == 2
\* tokens of a document given to calculate_tf
MaxTokens == 4
\* tasks other clients push on a worker's queue
MaxTasks == 3

(***************************************************************************)
(* Python values.                                                          *)
(***************************************************************************)
None == "None"
EmptyDict == [k \in {} |-> 0]

\* keys of a dict
Keys(d) == DOMAIN d

\* d[k] = v  (insert or overwrite)
DictSet(d, k, v) == [x \in (DOMAIN d) \cup {k} |-> IF x = k THEN v ELSE d[x]]

\* all dicts with keys in K and values in V
Dicts(K, V) == UNION {[D -> V] : D \in SUBSET K}

\* a JSON value found where a frequency is expected: an int, or something
\* else (a string, a float, a list)
PyInt(n) == [type |-> "int", val |-> n]
PyStr == [type |-> "str", val |-> 0]
\* a JSON value found where an inner map is expected: a dict, or a list
PyDict(m) == [type |-> "dict", items |-> m]
PyList == [type |-> "list", items |-> EmptyDict]

(***************************************************************************)
(* Documents and terms.                                                    *)
(***************************************************************************)
DocIds == {"d1.txt", "d9.txt"}
\* a document id no task is ever dispatched for
ForeignDocId == "dX.txt"
Terms == {"fox", "quick"}

(***************************************************************************)
(* fuse.py: merge_partial_index                                            *)
(***************************************************************************)
\* fuse.py:45  isinstance(doc_freq_map, dict)
IsDictValue(doc_freq_map) == doc_freq_map.type = "dict"

\* a check that forgets the sign
IsAnyInt(frequency) == frequency.type = "int"

\* fuse.py:58  isinstance(frequency, int) and frequency >= 0
IsNonNegInt(frequency) == frequency.type = "int" /\ frequency.val >= 0

\* fuse.py:45-60: the three checks that make the loop `continue`
TermIsMerged(doc_freq_map, doc_id_processed) ==
    /\ IsDictValue(doc_freq_map)
    /\ doc_id_processed \in Keys(doc_freq_map.items)
    /\ IsNonNegInt(doc_freq_map.items[doc_id_processed])

\* a Fuser that adds the new count to the stored one
StoreFrequencyAccumulating(global_index, term, doc_id_processed, frequency) ==
    LET inner == IF term \in Keys(global_index) THEN global_index[term] ELSE EmptyDict
        old == IF doc_id_processed \in Keys(inner) THEN inner[doc_id_processed] ELSE 0
    IN  DictSet(global_index, term, DictSet(inner, doc_id_processed, old + frequency))

\* a Fuser that counts how often a pair was fused again
StoreFrequencyCountingRepeats(global_index, term, doc_id_processed, frequency) ==
    LET inner == IF term \in Keys(global_index) THEN global_index[term] ELSE EmptyDict
        new == IF doc_id_processed \in Keys(inner)
               THEN inner[doc_id_processed] + 1 ELSE frequency
    IN  DictSet(global_index, term, DictSet(inner, doc_id_processed, new))

\* a Fuser that replaces the term's whole posting map
StoreFrequencyReplacingTerm(global_index, term, doc_id_processed, frequency) ==
    DictSet(global_index, term, doc_id_processed :> frequency)

\* fuse.py:63-69: global_index[term][doc_id_processed] = frequency
StoreFrequency(global_index, term, doc_id_processed, frequency) ==
    LET inner == IF term \in Keys(global_index) THEN global_index[term] ELSE EmptyDict
    IN  DictSet(global_index, term, DictSet(inner, doc_id_processed, frequency))

\* fuse.py:44-70: one iteration of the loop over partial_index.items()
MergeTerm(global_index, term, doc_freq_map, doc_id_processed) ==
    IF TermIsMerged(doc_freq_map, doc_id_processed)
    THEN StoreFrequency(global_index, term, doc_id_processed,
                        doc_freq_map.items[doc_id_processed].val)
    ELSE global_index

\* fuse.py:44: the loop, over the keys that are left
RECURSIVE MergeLoop(_, _, _, _)
MergeLoop(global_index, partial_index, todo, doc_id_processed) ==
    IF todo = {} THEN global_index
    ELSE LET term == CHOOSE t \in todo : TRUE
         IN  MergeLoop(MergeTerm(global_index, term, partial_index[term], doc_id_processed),
                       partial_index, todo \ {term}, doc_id_processed)

\* the index without the pairs of one document
WithoutDocument(index, doc_id) ==
    [t \in Keys(index) |-> [d \in Keys(index[t]) \ {doc_id} |-> index[t][d]]]

\* a Fuser that first drops what the index holds for the document
merge_replacing_document(global_index, partial_index_from_worker, doc_id_processed) ==
    MergeLoop(WithoutDocument(global_index, doc_id_processed), partial_index_from_worker,
              Keys(partial_index_from_worker), doc_id_processed)

\* fuse.py:15-74: the index after merge_partial_index(global_index, partial, doc_id)
merge_partial_index(global_index, partial_index_from_worker, doc_id_processed) ==
    MergeLoop(global_index, partial_index_from_worker,
              Keys(partial_index_from_worker), doc_id_processed)

(***************************************************************************)
(* text_utils.py: normalize_text, over a small vocabulary.  A text is the  *)
(* sequence of the words the tokenizer pattern finds in it.                *)
(***************************************************************************)
\* text_utils.py:62  text.lower()
Lower(word) == IF word = "The" THEN "the" ELSE word

\* text_utils.py:53-56  stopwords.words(language)
IsStopword(token) == token \in {"the"}

\* text_utils.py:72  token.isalpha()
IsAlpha(token) == token # "42"

\* text_utils.py:76  current_stemmer.stem(token)
Stem(token) == IF token = "foxes" THEN "fox" ELSE token

\* text_utils.py:57-78
RECURSIVE normalize_text(_)
normalize_text(text) ==
    IF text = <<>> THEN <<>>
    ELSE LET token == Lower(Head(text))
             rest == normalize_text(Tail(text))
         IN  IF ~IsStopword(token) /\ IsAlpha(token)
             THEN <<Stem(token)>> \o rest
             ELSE rest

(***************************************************************************)
(* worker.py: calculate_tf                                                 *)
(***************************************************************************)
\* a worker that starts to count at the second meeting of a token
CountTokenLate(tf_map, token, doc_id) ==
    IF token \in Keys(tf_map)
    THEN DictSet(tf_map, token, doc_id :> (tf_map[token][doc_id] + 1))
    ELSE DictSet(tf_map, token, doc_id :> 0)

\* a worker that notes each token once
CountTokenPresence(tf_map, token, doc_id) == DictSet(tf_map, token, doc_id :> 1)

\* worker.py:82-86  the body of the loop: a token not yet in tf_map gets
\* {doc_id: 0}, then tf_map[token][doc_id] += 1
CountToken(tf_map, token, doc_id) ==
    LET started == IF token \in Keys(tf_map)
                   THEN tf_map
                   ELSE DictSet(tf_map, token, doc_id :> 0)
    IN  DictSet(started, token,
                DictSet(started[token], doc_id, started[token][doc_id] + 1))

\* worker.py:81  for token in tokens
RECURSIVE CountTokens(_, _, _)
CountTokens(tf_map, tokens, doc_id) ==
    IF tokens = <<>>
    THEN tf_map
    ELSE CountTokens(CountToken(tf_map, Head(tokens), doc_id), Tail(tokens), doc_id)

\* worker.py:73-87
calculate_tf(tokens, doc_id) ==
    IF tokens = <<>> THEN EmptyDict ELSE CountTokens(EmptyDict, tokens, doc_id)

\* worker.py:135 json.dumps / task_queue.py:192-193 json.loads, PartialIndexData:
\* the partial index as the coordinator's handler receives it
DecodedPartialIndex(tf_map) ==
    [term \in DOMAIN tf_map |->
        PyDict([d \in DOMAIN tf_map[term] |-> PyInt(tf_map[term][d])])]

(***************************************************************************)
(* Broker (Redis) commands, as the coordinator and the workers use them.   *)
(* A status key is absent (TTL reads -2), has no expiry (TTL reads -1) or  *)
(* expires (TTL reads the seconds left, here the value last set).          *)
(***************************************************************************)
Workers == {"A", "B", "C"}
\* the order of the identifiers as strings
WorkerRank == ("A" :> 1) @@ ("B" :> 2) @@ ("C" :> 3)

\* worker.py:151  interval=2
interval == 2
\* worker.py:155
ttl_seconds == interval * 3

KeyMissing == -2
NoExpiry == -1
AbsentStatus == [ttl |-> KeyMissing, hash |-> EmptyDict]

\* worker.py:170-174  hset(status_key, mapping={"cpu": .., "ram": ..}): creates
\* the key without expiry when it is absent, keeps the TTL of a present key
Hset(status, cpu_str, ram_str) ==
    [ttl |-> IF status.ttl = KeyMissing THEN NoExpiry ELSE status.ttl,
     hash |-> DictSet(DictSet(status.hash, "cpu", cpu_str), "ram", ram_str)]

\* worker.py:186  expire(status_key, ttl_seconds): nothing for an absent key
Expire(status, seconds) ==
    IF status.ttl = KeyMissing THEN status ELSE [status EXCEPT !.ttl = seconds]

\* task_queue.py:57  keys("worker_status:*")
ExistingKeys(status_of) == {w \in Workers : status_of[w].ttl # KeyMissing}

\* the orders in which KEYS may list a set of keys
Orderings(S) ==
    {seq \in [1..Cardinality(S) -> S] : \A i, j \in 1..Cardinality(S) : seq[i] = seq[j] => i = j}

\* worker.py:170 / task_queue.py:81: the decimal strings of the reported loads
FloatOfString == ("5.0" :> 5) @@ ("10.0" :> 10) @@ ("90.0" :> 90)
IsFloatString(str) == str \in DOMAIN FloatOfString

\* task_queue.py:81-86  "Default to high load"
DefaultLoad == 100

\* task_queue.py:78-88: cpu + ram of a status hash
LoadMetric(status_data) ==
    LET cpu_str == IF "cpu" \in Keys(status_data) THEN status_data["cpu"] ELSE None
        ram_str == IF "ram" \in Keys(status_data) THEN status_data["ram"] ELSE None
        raises == \/ cpu_str # None /\ ~IsFloatString(cpu_str)
                  \/ ram_str # None /\ ~IsFloatString(ram_str)
        cpu == IF cpu_str # None THEN FloatOfString[cpu_str] ELSE DefaultLoad
        ram == IF ram_str # None THEN FloatOfString[ram_str] ELSE DefaultLoad
    IN  IF raises THEN DefaultLoad + DefaultLoad ELSE cpu + ram

\* a dispatcher that skips no worker
IsDeadTtlNever(ttl) == FALSE

\* task_queue.py:70  the TTL values that make the dispatcher skip a worker
IsDeadTtl(ttl) == ttl < 0 /\ ttl # NoExpiry

\* a sort key that forgets the length of the queue
SortKeyLessLoadOnly(a, b) == a.load_metric < b.load_metric

\* a sort key that forgets the load
SortKeyLessQueueOnly(a, b) == a.queue_length < b.queue_length

\* task_queue.py:104  key=lambda x: (x[1], x[2]), compared as Python tuples
SortKeyLess(a, b) ==
    \/ a.queue_length < b.queue_length
    \/ a.queue_length = b.queue_length /\ a.load_metric < b.load_metric

\* task_queue.py:104  list.sort is stable: x goes behind every element that
\* is not greater than it
RECURSIVE InsertStable(_, _)
InsertStable(sorted, x) ==
    IF sorted = <<>> THEN <<x>>
    ELSE IF SortKeyLess(x, Head(sorted))
         THEN <<x>> \o sorted
         ELSE <<Head(sorted)>> \o InsertStable(Tail(sorted), x)

RECURSIVE SortCandidates(_)
SortCandidates(candidates) ==
    IF candidates = <<>> THEN <<>>
    ELSE InsertStable(SortCandidates(SubSeq(candidates, 1, Len(candidates) - 1)),
                      candidates[Len(candidates)])

\* task_queue.py:106  candidate_workers[0][0]
SelectHead(sorted) == sorted[1].worker_id
(***************************************************************************)
(* State.                                                                  *)
(***************************************************************************)
VARIABLES
    \* coordinator, main.py:58-60
    global_inverted_index,            \* term -> (doc_id -> frequency)
    dispatched_docs_pending_results,  \* the pending set
    index_lock,                       \* the thread that holds the mutex, or None
    \* history of direct Fuser calls
    index_before,                     \* the index when the last merge began
    last_merge,                       \* the arguments of the last merge
    \* broker
    worker_status,                    \* worker -> [ttl, hash] of worker_status:<worker>
    task_queues,                      \* worker -> list doc_processing_tasks:<worker>
    subscribed,                       \* the listener is subscribed to the results channel
    inbox,                            \* messages delivered to the subscription, not yet read
    \* request thread, main.py:166-211 and task_queue.py:52-146
    rpc,                              \* where the request handler is
    files_left,                       \* files of the directory not yet visited
    successful_files,
    failed_files_details,
    cur_task,                         \* the DocumentTask being dispatched
    push_outcome,                     \* history: how push_task_to_queue ended for it
    worker_status_keys,               \* the enumeration, in the broker's order
    key_idx,                          \* position of the for loop in it
    load_metric,                      \* cpu + ram of the worker being read
    candidate_workers,
    selected_worker_id,
    ttl_seen,                         \* history: worker -> TTL read by this dispatch
    n_dispatched,                     \* files visited so far; the task's serial number
    \* results listener thread, task_queue.py:167-220 and main.py:98-112
    lpc,
    data,                             \* the PartialIndexData being handled
    merge_into_global,                \* the dict the handler passed to the Fuser is still the global index
    \* workers, worker.py:192-245
    worker_task,                      \* worker -> the task popped and not yet processed
    \* history
    unfused_tasks,                    \* history: pushed tasks whose result has not been fused
    n_foreign,                        \* records published by others than the workers
    registered,                       \* history: serials of the dispatches that ran P.add
    pushed,                           \* history: [serial, doc_id, worker_id] of every rpush
    lost_tasks,                       \* history: popped tasks that produced no delivered record
    \* the other endpoints of main.py and the checkpoint file
    checkpoint,                       \* the file at INDEX_FILE_STORAGE_PATH
    loaded_index,                     \* load_index_endpoint: the index read from the file
    search_stem,                      \* search_endpoint: stemmed_terms[0]
    search_term,                      \* the term parameter of the search being served
    response,                         \* what the endpoint returns to its caller
    \* worker process, worker.py:52, 151-237
    redis_client,                     \* worker -> the module's client exists
    r_client,                         \* worker -> main_loop holds a client
    status_thread,                    \* worker -> main_loop holds a thread it started
    status_threads,                   \* worker -> the running report_status_periodically threads
    \* listener stop and coordinator shutdown, main.py:115, 135-145
    stop_event,                       \* stop_event_redis_listener is set
    merged_terms,                     \* fuse.py:44  the terms the loop of the merge has visited
    decode_errors,                    \* history: messages logged as not decodable
    \* calculate_tf, worker.py:73-87
    tf_tokens,                        \* the tokens given to the last call
    tf_doc_id,                        \* the doc_id given to the last call
    tf_map                            \* what the last call returned

fuse_vars == <<index_before, last_merge>>
coord_vars == <<global_inverted_index, dispatched_docs_pending_results, index_lock>>
broker_vars == <<worker_status, task_queues, subscribed, inbox>>
select_vars == <<worker_status_keys, key_idx, load_metric, candidate_workers,
                 selected_worker_id, ttl_seen>>
request_vars == <<rpc, files_left, successful_files, failed_files_details, cur_task,
                  push_outcome, n_dispatched, select_vars>>
listener_vars == <<lpc, data>>
worker_vars == <<worker_task>>
history_vars == <<unfused_tasks, n_foreign>>
log_vars == <<registered, pushed, lost_tasks>>
api_vars == <<checkpoint, loaded_index, search_stem, search_term, response, merge_into_global>>
proc_vars == <<redis_client, r_client, status_thread, status_threads>>
life_vars == <<stop_event, merged_terms, decode_errors>>
tf_vars == <<tf_tokens, tf_doc_id, tf_map>>
vars == <<coord_vars, fuse_vars, broker_vars, request_vars, listener_vars,
          worker_vars, history_vars, log_vars, api_vars, proc_vars, life_vars, tf_vars>>

\* no merge has been made yet
NoMerge == [partial_index |-> EmptyDict, doc_id |-> None]
NoTask == [doc_id |-> None, content |-> <<>>, serial |-> 0]
NoData == [worker_id |-> None, doc_id |-> None, partial_index |-> EmptyDict, serial |-> 0]
\* no search is being served
NoTerm == [given |-> FALSE, text |-> <<>>]
\* main.py:72-74  no file at INDEX_FILE_STORAGE_PATH
NoFile == [state |-> "absent", index |-> EmptyDict]
\* no endpoint is about to return
NoResponse == [status |-> 0, docs |-> <<>>, detail |-> <<>>]

\* a load that returns whatever text the file holds
IndexOfFileAsFound(file) == file.index

\* main.py:64-83  load_global_index_from_file: the index of a readable
\* file, else an empty index
IndexOfFile(file) == IF file.state = "valid" THEN file.index ELSE EmptyDict

\* main.py:114-124  lifespan startup: the index is loaded from the
\* checkpoint file, the pending set is empty, nothing runs yet
Started(file) ==
    /\ global_inverted_index = IndexOfFile(file)
    /\ dispatched_docs_pending_results = {}
    /\ index_lock = None
    /\ index_before = EmptyDict
    /\ last_merge = NoMerge
    /\ worker_status = [w \in Workers |-> AbsentStatus]
    /\ task_queues = [w \in Workers |-> <<>>]
    /\ subscribed = FALSE
    /\ inbox = <<>>
    /\ rpc = "idle"
    /\ files_left = {}
    /\ successful_files = {}
    /\ failed_files_details = {}
    /\ cur_task = NoTask
    /\ push_outcome = None
    /\ worker_status_keys = <<>>
    /\ key_idx = 1
    /\ load_metric = 0
    /\ candidate_workers = <<>>
    /\ selected_worker_id = None
    /\ ttl_seen = EmptyDict
    /\ n_dispatched = 0
    /\ lpc = "connect"
    /\ data = NoData
    /\ merge_into_global = TRUE
    /\ worker_task = [w \in Workers |-> NoTask]
    /\ unfused_tasks = {}
    /\ n_foreign = 0
    /\ registered = {}
    /\ pushed = {}
    /\ lost_tasks = {}
    /\ checkpoint = file
    /\ loaded_index = EmptyDict
    /\ search_stem = None
    /\ search_term = NoTerm
    /\ response = NoResponse
    /\ redis_client = [w \in Workers |-> FALSE]
    /\ r_client = [w \in Workers |-> FALSE]
    /\ status_thread = [w \in Workers |-> FALSE]
    /\ status_threads = [w \in Workers |-> <<>>]
    /\ stop_event = FALSE
    /\ merged_terms = {}
    /\ decode_errors = 0
    /\ tf_tokens = <<>>
    /\ tf_doc_id = None
    /\ tf_map = EmptyDict

\* a first start: no checkpoint file yet
Init == Started(NoFile)
(***************************************************************************)
(* main.py:166-211  trigger_local_indexing_endpoint.  The endpoint is a    *)
(* coroutine without await: the event loop runs one request at a time.     *)
(***************************************************************************)
\* a text that is always taken as non-blank
IsBlankNever(content) == FALSE

\* main.py:184, 215  content_str.strip() / term.strip() is empty
IsBlank(content) == content = <<>>

\* the locals of push_task_to_queue and get_least_loaded_worker are gone
\* when the call returns
ClearSelection ==
    /\ worker_status_keys' = <<>>
    /\ key_idx' = 1
    /\ load_metric' = 0
    /\ candidate_workers' = <<>>
    /\ ttl_seen' = EmptyDict

\* main.py:172-176: a request begins to scan a directory holding `files`
ReqStart(files) ==
    /\ rpc = "idle"
    /\ files # {}
    /\ n_dispatched + Cardinality(files) <= MaxDispatch
    /\ rpc' = "scan"
    /\ files_left' = files
    /\ UNCHANGED <<successful_files, failed_files_details, cur_task, push_outcome,
                   n_dispatched, select_vars>>
    /\ UNCHANGED <<coord_vars, fuse_vars, broker_vars, listener_vars, worker_vars, history_vars>>
    /\ UNCHANGED <<log_vars, api_vars>>
    /\ UNCHANGED <<proc_vars, life_vars, tf_vars>>

\* a dispatch that goes to the push without registering the doc_id
AfterTaskBuiltPushFirst(task) == "keys"

\* main.py:189-192: after the task is built the doc_id is registered, then
\* the task is pushed
AfterTaskBuilt(task) == "acquire_add"

\* a submit that registers the doc_id before it looks at the content
PendingAfterSkipRegistered(pending, doc_id) == pending \cup {doc_id}

\* main.py:184-187  the blank file is skipped by `continue`, three lines
\* before the add of line 190
PendingAfterSkip(pending, doc_id) == pending

\* main.py:176-189: the next file is read; an empty one is reported and skipped
ReqNextFile(doc_id, content) ==
    /\ rpc = "scan"
    /\ doc_id \in files_left
    /\ files_left' = files_left \ {doc_id}
    /\ n_dispatched' = n_dispatched + 1
    /\ IF IsBlank(content)
       THEN /\ failed_files_details' = failed_files_details \cup {<<doc_id, "Skipped">>}
            /\ dispatched_docs_pending_results' =
                   PendingAfterSkip(dispatched_docs_pending_results, doc_id)
            /\ UNCHANGED <<rpc, cur_task>>
       ELSE /\ cur_task' = [doc_id |-> doc_id, content |-> content, serial |-> n_dispatched + 1]
            /\ rpc' = AfterTaskBuilt(cur_task')
            /\ UNCHANGED <<failed_files_details, dispatched_docs_pending_results>>
    /\ UNCHANGED <<successful_files, push_outcome, select_vars>>
    /\ UNCHANGED <<global_inverted_index, index_lock>>
    /\ UNCHANGED <<fuse_vars, broker_vars, listener_vars, worker_vars, history_vars>>
    /\ UNCHANGED <<log_vars, api_vars>>
    /\ UNCHANGED <<proc_vars, life_vars, tf_vars>>

\* main.py:182-183, 203-205: reading the file raises (no such file, not UTF-8)
ReqFileError(doc_id) ==
    /\ rpc = "scan"
    /\ doc_id \in files_left
    /\ files_left' = files_left \ {doc_id}
    /\ n_dispatched' = n_dispatched + 1
    /\ cur_task' = [doc_id |-> doc_id, content |-> <<>>, serial |-> n_dispatched + 1]
    /\ failed_files_details' = failed_files_details \cup {<<doc_id, "Error">>}
    /\ push_outcome' = "not_called"
    /\ rpc' = "acquire_discard"
    /\ UNCHANGED <<successful_files, select_vars>>
    /\ UNCHANGED <<coord_vars, fuse_vars, broker_vars, listener_vars, worker_vars, history_vars>>
    /\ UNCHANGED <<log_vars, api_vars>>
    /\ UNCHANGED <<proc_vars, life_vars, tf_vars>>

\* a mutex that is granted whoever holds it
LockIsFreeAlways(lock) == TRUE

\* threading.Lock: acquire goes on when no thread holds the lock
LockIsFree(lock) == lock = None

\* the section a handler enters when its `with index_lock:` is granted
SectionOf ==
    [pc \in {"acquire_add", "acquire_discard", "acquire_lookup", "acquire_status",
             "acquire_save", "acquire_read", "acquire_swap", "acquire_final_save"} |->
        CASE pc = "acquire_add" -> "add"
          [] pc = "acquire_discard" -> "discard"
          [] pc = "acquire_lookup" -> "lookup"
          [] pc = "acquire_status" -> "status"
          [] pc = "acquire_save" -> "save"
          [] pc = "acquire_read" -> "read"
          [] pc = "acquire_swap" -> "swap"
          [] pc = "acquire_final_save" -> "final_save"]

\* main.py:65, 86, 190, 200, 206, 221, 232, 252  with index_lock:
ReqAcquire ==
    /\ rpc \in DOMAIN SectionOf
    /\ LockIsFree(index_lock)
    /\ index_lock' = "request"
    /\ rpc' = SectionOf[rpc]
    /\ UNCHANGED <<global_inverted_index, dispatched_docs_pending_results>>
    /\ UNCHANGED <<files_left, successful_files, failed_files_details, cur_task,
                   push_outcome, n_dispatched, select_vars>>
    /\ UNCHANGED <<fuse_vars, broker_vars, listener_vars, worker_vars, history_vars>>
    /\ UNCHANGED <<log_vars, api_vars>>
    /\ UNCHANGED <<proc_vars, life_vars, tf_vars>>

\* main.py:191  dispatched_docs_pending_results.add(doc_id)
PendingAfterAdd(pending, doc_id) == pending \cup {doc_id}

\* main.py:190-191  the doc_id enters the pending set, lock released
ReqAdd ==
    /\ rpc = "add"
    /\ dispatched_docs_pending_results' =
           PendingAfterAdd(dispatched_docs_pending_results, cur_task.doc_id)
    /\ index_lock' = None
    /\ rpc' = "keys"
    /\ UNCHANGED global_inverted_index
    /\ UNCHANGED <<files_left, successful_files, failed_files_details, cur_task,
                   push_outcome, n_dispatched, select_vars>>
    /\ UNCHANGED <<fuse_vars, broker_vars, listener_vars, worker_vars, history_vars>>
    /\ registered' = registered \cup {cur_task.serial}
    /\ UNCHANGED <<pushed, lost_tasks, api_vars>>
    /\ UNCHANGED <<proc_vars, life_vars, tf_vars>>

\* a failed push that is left out of the failure report
PushReturnsNoneUnreported(cause) ==
    /\ push_outcome' = cause
    /\ UNCHANGED failed_files_details
    /\ selected_worker_id' = None
    /\ ClearSelection
    /\ rpc' = "acquire_discard"

\* task_queue.py:58-60, 99-101, 128-130, 139-146 and main.py:197-199:
\* push_task_to_queue returns None; the file is reported
PushReturnsNone(cause) ==
    /\ push_outcome' = cause
    /\ failed_files_details' = failed_files_details \cup {<<cur_task.doc_id, "Failed to push">>}
    /\ selected_worker_id' = None
    /\ ClearSelection
    /\ rpc' = "acquire_discard"

\* a failure path that leaves the pending set alone
PendingAfterNoDiscard(pending, doc_id) == pending

\* main.py:201-202, 207-208  if doc_id in pending: pending.remove(doc_id)
PendingAfterDiscard(pending, doc_id) == pending \ {doc_id}

\* main.py:200-202, 206-208  the doc_id leaves the pending set, lock released
ReqDiscard ==
    /\ rpc = "discard"
    /\ dispatched_docs_pending_results' =
           PendingAfterDiscard(dispatched_docs_pending_results, cur_task.doc_id)
    /\ index_lock' = None
    /\ rpc' = "failed"
    /\ UNCHANGED global_inverted_index
    /\ UNCHANGED <<files_left, successful_files, failed_files_details, cur_task,
                   push_outcome, n_dispatched, select_vars>>
    /\ UNCHANGED <<fuse_vars, broker_vars, listener_vars, worker_vars, history_vars>>
    /\ UNCHANGED <<log_vars, api_vars>>
    /\ UNCHANGED <<proc_vars, life_vars, tf_vars>>

\* main.py:176  the for loop turns to the next file
ReqContinue ==
    /\ rpc \in {"dispatched", "failed"}
    /\ rpc' = "scan"
    /\ cur_task' = NoTask
    /\ push_outcome' = None
    /\ selected_worker_id' = None
    /\ UNCHANGED <<files_left, successful_files, failed_files_details, n_dispatched,
                   worker_status_keys, key_idx, load_metric, candidate_workers, ttl_seen>>
    /\ UNCHANGED <<coord_vars, fuse_vars, broker_vars, listener_vars, worker_vars, history_vars>>
    /\ UNCHANGED <<log_vars, api_vars>>
    /\ UNCHANGED <<proc_vars, life_vars, tf_vars>>

\* main.py:209-211: every file was visited, the response is returned
ReqEnd ==
    /\ rpc = "scan"
    /\ files_left = {}
    /\ rpc' = "idle"
    /\ successful_files' = {}
    /\ failed_files_details' = {}
    /\ UNCHANGED <<files_left, cur_task, push_outcome, n_dispatched, select_vars>>
    /\ UNCHANGED <<coord_vars, fuse_vars, broker_vars, listener_vars, worker_vars, history_vars>>
    /\ UNCHANGED <<log_vars, api_vars>>
    /\ UNCHANGED <<proc_vars, life_vars, tf_vars>>(***************************************************************************)
(* task_queue.py:52-146  push_task_to_queue and get_least_loaded_worker.   *)
(* Every broker command is a step of its own: the broker's state may       *)
(* change between two of them.                                             *)
(***************************************************************************)
\* task_queue.py:64, 72, 96: the for loop moves to the next key, or ends
NextKey ==
    /\ key_idx' = key_idx + 1
    /\ rpc' = IF key_idx = Len(worker_status_keys) THEN "sort" ELSE "ttl"

\* task_queue.py:57-62  keys("worker_status:*"), in an order the broker chooses
ReqKeys(order) ==
    /\ rpc = "keys"
    /\ order \in Orderings(ExistingKeys(worker_status))
    /\ IF DOMAIN order = {}
       THEN PushReturnsNone("no_keys")
       ELSE /\ worker_status_keys' = order
            /\ rpc' = "ttl"
            /\ UNCHANGED <<failed_files_details, push_outcome, key_idx, load_metric,
                           candidate_workers, selected_worker_id, ttl_seen>>
    /\ UNCHANGED <<files_left, successful_files, cur_task, n_dispatched>>
    /\ UNCHANGED <<coord_vars, fuse_vars, broker_vars, listener_vars, worker_vars, history_vars>>
    /\ UNCHANGED <<log_vars, api_vars>>
    /\ UNCHANGED <<proc_vars, life_vars, tf_vars>>

\* task_queue.py:64-72  ttl(key); a dead worker is skipped
ReqTtl ==
    /\ rpc = "ttl"
    /\ LET worker_id_from_key == worker_status_keys[key_idx]
           ttl == worker_status[worker_id_from_key].ttl
       IN  /\ ttl_seen' = DictSet(ttl_seen, worker_id_from_key, ttl)
           /\ IF IsDeadTtl(ttl)
              THEN NextKey
              ELSE rpc' = "hgetall" /\ UNCHANGED key_idx
    /\ UNCHANGED <<files_left, successful_files, failed_files_details, cur_task, push_outcome,
                   n_dispatched, worker_status_keys, load_metric, candidate_workers,
                   selected_worker_id>>
    /\ UNCHANGED <<coord_vars, fuse_vars, broker_vars, listener_vars, worker_vars, history_vars>>
    /\ UNCHANGED <<log_vars, api_vars>>
    /\ UNCHANGED <<proc_vars, life_vars, tf_vars>>

\* task_queue.py:74-88  hgetall(key), cpu + ram
ReqHgetall ==
    /\ rpc = "hgetall"
    /\ load_metric' = LoadMetric(worker_status[worker_status_keys[key_idx]].hash)
    /\ rpc' = "llen"
    /\ UNCHANGED <<files_left, successful_files, failed_files_details, cur_task, push_outcome,
                   n_dispatched, worker_status_keys, key_idx, candidate_workers,
                   selected_worker_id, ttl_seen>>
    /\ UNCHANGED <<coord_vars, fuse_vars, broker_vars, listener_vars, worker_vars, history_vars>>
    /\ UNCHANGED <<log_vars, api_vars>>
    /\ UNCHANGED <<proc_vars, life_vars, tf_vars>>

\* task_queue.py:90-96  llen(queue); the worker becomes a candidate
ReqLlen ==
    /\ rpc = "llen"
    /\ LET worker_id_from_key == worker_status_keys[key_idx]
       IN  candidate_workers' = Append(candidate_workers,
               [worker_id |-> worker_id_from_key,
                queue_length |-> Len(task_queues[worker_id_from_key]),
                load_metric |-> load_metric])
    /\ load_metric' = 0
    /\ NextKey
    /\ UNCHANGED <<files_left, successful_files, failed_files_details, cur_task, push_outcome,
                   n_dispatched, worker_status_keys, selected_worker_id, ttl_seen>>
    /\ UNCHANGED <<coord_vars, fuse_vars, broker_vars, listener_vars, worker_vars, history_vars>>
    /\ UNCHANGED <<log_vars, api_vars>>
    /\ UNCHANGED <<proc_vars, life_vars, tf_vars>>

\* task_queue.py:99-108, 126-130  sort, pick the head; no candidate: None
ReqSort ==
    /\ rpc = "sort"
    /\ IF candidate_workers = <<>>
       THEN PushReturnsNone("no_candidates")
       ELSE /\ candidate_workers' = SortCandidates(candidate_workers)
            /\ selected_worker_id' = SelectHead(candidate_workers')
            /\ rpc' = "rpush"
            /\ UNCHANGED <<failed_files_details, push_outcome, worker_status_keys, key_idx,
                           load_metric, ttl_seen>>
    /\ UNCHANGED <<files_left, successful_files, cur_task, n_dispatched>>
    /\ UNCHANGED <<coord_vars, fuse_vars, broker_vars, listener_vars, worker_vars, history_vars>>
    /\ UNCHANGED <<log_vars, api_vars>>
    /\ UNCHANGED <<proc_vars, life_vars, tf_vars>>

\* a queue name that does not depend on the selected worker
QueueOfFirstWorker(worker_id) == "A"

\* task_queue.py:135  f"{TASK_QUEUE_PREFIX}:{worker_id}": the queue of that worker
QueueOf(worker_id) == worker_id

\* a push at the head of the list (lpush)
QueueAfterPushAtHead(queue, task) == <<task>> \o queue

\* task_queue.py:138  rpush: the task goes to the tail of the list
QueueAfterPush(queue, task) == Append(queue, task)

\* task_queue.py:135-138 and main.py:192-196  rpush(queue_name, task_json)
ReqRpush ==
    /\ rpc = "rpush"
    /\ task_queues' = [task_queues EXCEPT ![QueueOf(selected_worker_id)] = QueueAfterPush(@, cur_task)]
    /\ successful_files' = successful_files \cup {cur_task.doc_id}
    /\ unfused_tasks' = unfused_tasks \cup {[serial |-> cur_task.serial, doc_id |-> cur_task.doc_id]}
    /\ push_outcome' = "pushed"
    /\ ClearSelection
    /\ rpc' = "dispatched"
    /\ UNCHANGED <<files_left, failed_files_details, cur_task, n_dispatched, selected_worker_id>>
    /\ UNCHANGED <<worker_status, subscribed, inbox, n_foreign>>
    /\ UNCHANGED <<coord_vars, fuse_vars, listener_vars, worker_vars>>
    /\ pushed' = pushed \cup {[serial |-> cur_task.serial, doc_id |-> cur_task.doc_id,
                             worker_id |-> selected_worker_id]}
    /\ UNCHANGED <<registered, lost_tasks, api_vars>>
    /\ UNCHANGED <<proc_vars, life_vars, tf_vars>>

\* task_queue.py:139-143  a broker command raises RedisError
ReqBrokerError ==
    /\ rpc \in {"keys", "ttl", "hgetall", "llen", "rpush"}
    /\ PushReturnsNone("broker_error")
    /\ UNCHANGED <<files_left, successful_files, cur_task, n_dispatched>>
    /\ UNCHANGED <<coord_vars, fuse_vars, broker_vars, listener_vars, worker_vars, history_vars>>
    /\ UNCHANGED <<log_vars, api_vars>>
    /\ UNCHANGED <<proc_vars, life_vars, tf_vars>>
(***************************************************************************)
(* worker.py: the worker's effects on the broker.                          *)
(***************************************************************************)
\* worker.py:170-174  str() of the reported float
StringOfFloat == (5 :> "5.0") @@ (10 :> "10.0") @@ (90 :> "90.0")

\* worker.py:162-174  hset of the measured cpu and ram
HeartbeatHset(w, raw_cpu_percent, current_ram) ==
    /\ worker_status' = [worker_status EXCEPT
           ![w] = Hset(@, StringOfFloat[raw_cpu_percent], StringOfFloat[current_ram])]
    /\ worker_status'[w] # worker_status[w]
    /\ UNCHANGED <<task_queues, subscribed, inbox>>
    /\ UNCHANGED <<coord_vars, fuse_vars, request_vars, listener_vars, worker_vars, history_vars>>
    /\ UNCHANGED <<log_vars, api_vars>>
    /\ UNCHANGED <<proc_vars, life_vars, tf_vars>>

\* worker.py:185-186  expire(status_key, ttl_seconds)
HeartbeatExpire(w) ==
    /\ worker_status' = [worker_status EXCEPT ![w] = Expire(@, ttl_seconds)]
    /\ worker_status'[w] # worker_status[w]
    /\ UNCHANGED <<task_queues, subscribed, inbox>>
    /\ UNCHANGED <<coord_vars, fuse_vars, request_vars, listener_vars, worker_vars, history_vars>>
    /\ UNCHANGED <<log_vars, api_vars>>
    /\ UNCHANGED <<proc_vars, life_vars, tf_vars>>

\* worker.py:155  the TTL runs out: the broker deletes the key
StatusKeyExpires(w) ==
    /\ worker_status[w].ttl >= 0
    /\ worker_status' = [worker_status EXCEPT ![w] = AbsentStatus]
    /\ UNCHANGED <<task_queues, subscribed, inbox>>
    /\ UNCHANGED <<coord_vars, fuse_vars, request_vars, listener_vars, worker_vars, history_vars>>
    /\ UNCHANGED <<log_vars, api_vars>>
    /\ UNCHANGED <<proc_vars, life_vars, tf_vars>>

\* a pop that leaves the task on the list
QueueAfterPeek(queue) == queue

\* worker.py:221  blpop removes the head of the list
QueueAfterPop(queue) == Tail(queue)

\* worker.py:221-223  blpop(worker_queue): the worker takes the head of its own list
WorkerPop(w) ==
    /\ worker_task[w] = NoTask
    /\ task_queues[w] # <<>>
    /\ worker_task' = [worker_task EXCEPT ![w] = Head(task_queues[w])]
    /\ task_queues' = [task_queues EXCEPT ![w] = QueueAfterPop(@)]
    /\ UNCHANGED <<worker_status, subscribed, inbox>>
    /\ UNCHANGED <<coord_vars, fuse_vars, request_vars, listener_vars, history_vars>>
    /\ UNCHANGED <<log_vars, api_vars>>
    /\ UNCHANGED <<proc_vars, life_vars, tf_vars>>

\* worker.py:128-133  result_payload, as the listener decodes it
ResultPayload(w, task, partial_index) ==
    [worker_id |-> w, doc_id |-> task.doc_id,
     partial_index |-> DecodedPartialIndex(partial_index),
     serial |-> task.serial, valid |-> TRUE]

\* a channel that keeps the message for a later subscriber
DeliveredOrKept(messages, is_subscribed, message) == Append(messages, message)

\* worker.py:135  publish: the broker hands the message to the subscribers
\* of this moment and keeps nothing
Delivered(messages, is_subscribed, message) ==
    IF is_subscribed THEN Append(messages, message) ELSE messages

Publish(message) ==
    inbox' = Delivered(inbox, subscribed, message)

LostTask(task, why) == [serial |-> task.serial, doc_id |-> task.doc_id, why |-> why]

\* a worker that publishes a result whatever the tokens
HasTokensAlways(processed_tokens) == TRUE

\* worker.py:117-119  `if not processed_tokens:` return without publishing
HasTokens(processed_tokens) == processed_tokens # <<>>

\* worker.py:105-108  json.loads raises, or task_data['doc_id'] or
\* task_data['content'] is missing
TaskRaises(task) == "malformed" \in DOMAIN task

\* a worker process that ends at the first task it cannot process
AfterTaskErrorExit(task) == [doc_id |-> None, content |-> <<>>, serial |-> -1]

\* worker.py:141-149, 221-226  the except clauses log and return; main_loop
\* is back at blpop with no task in hand
AfterTaskError(task) == NoTask

\* worker.py:89-149  process_document_task
WorkerProcess(w) ==
    /\ worker_task[w] # NoTask
    /\ ~TaskRaises(worker_task[w])
    /\ LET processed_tokens == normalize_text(worker_task[w].content)
       IN  IF ~HasTokens(processed_tokens)
           THEN /\ UNCHANGED inbox
                /\ lost_tasks' = lost_tasks \cup {LostTask(worker_task[w], "no_tokens")}
           ELSE /\ Publish(ResultPayload(w, worker_task[w],
                               calculate_tf(processed_tokens, worker_task[w].doc_id)))
                /\ lost_tasks' = IF subscribed THEN lost_tasks
                                 ELSE lost_tasks \cup {LostTask(worker_task[w], "no_subscriber")}
    /\ worker_task' = [worker_task EXCEPT ![w] = NoTask]
    /\ UNCHANGED <<worker_status, task_queues, subscribed>>
    /\ UNCHANGED <<coord_vars, fuse_vars, request_vars, listener_vars, history_vars>>
    /\ UNCHANGED <<registered, pushed, api_vars>>
    /\ UNCHANGED <<proc_vars, life_vars, tf_vars>>

\* worker.py:141-149  the processing raises (the publish fails, an unexpected
\* error): it is logged, nothing is published, the task is gone
WorkerProcessError(w) ==
    /\ worker_task[w] # NoTask
    /\ worker_task' = [worker_task EXCEPT ![w] = AfterTaskError(@)]
    /\ lost_tasks' = lost_tasks \cup {LostTask(worker_task[w], "error")}
    /\ UNCHANGED <<worker_status, task_queues, subscribed, inbox>>
    /\ UNCHANGED <<coord_vars, fuse_vars, request_vars, listener_vars, history_vars>>
    /\ UNCHANGED <<registered, pushed, api_vars>>
    /\ UNCHANGED <<proc_vars, life_vars, tf_vars>>

\* worker.py:105-108, 141-144  a task that is no JSON or lacks doc_id or
\* content: JSONDecodeError or KeyError is logged, nothing is published
WorkerProcessMalformed(w) ==
    /\ worker_task[w] # NoTask
    /\ TaskRaises(worker_task[w])
    /\ worker_task' = [worker_task EXCEPT ![w] = AfterTaskError(@)]
    /\ lost_tasks' = lost_tasks \cup {LostTask(worker_task[w], "malformed")}
    /\ UNCHANGED <<worker_status, task_queues, subscribed, inbox>>
    /\ UNCHANGED <<coord_vars, fuse_vars, request_vars, listener_vars, history_vars>>
    /\ UNCHANGED <<registered, pushed, api_vars>>
    /\ UNCHANGED <<proc_vars, life_vars, tf_vars>>

\* worker.py:221  what blpop may find on the list: a task of the
\* coordinator's form, or whatever another client pushed
ClientRpush(w, task) ==
    /\ n_foreign < MaxTasks
    /\ n_foreign' = n_foreign + 1
    /\ task_queues' = [task_queues EXCEPT ![w] = Append(@, task)]
    /\ UNCHANGED <<worker_status, subscribed, inbox, unfused_tasks>>
    /\ UNCHANGED <<coord_vars, fuse_vars, request_vars, listener_vars, worker_vars>>
    /\ UNCHANGED <<log_vars, api_vars>>
    /\ UNCHANGED <<proc_vars, life_vars, tf_vars>>

(***************************************************************************)
(* Records published on the results channel by others than the workers.    *)
(***************************************************************************)
\* a record whose inner map is keyed by another document
ContaminatedRecord(doc_id) ==
    [worker_id |-> "other", doc_id |-> doc_id,
     partial_index |-> ("foo" :> PyDict(ForeignDocId :> PyInt(3))),
     serial |-> 0, valid |-> TRUE]

ForeignPublish(message) ==
    /\ n_foreign < MaxForeign
    /\ n_foreign' = n_foreign + 1
    /\ Publish(message)
    /\ UNCHANGED <<worker_status, task_queues, subscribed, unfused_tasks>>
    /\ UNCHANGED <<coord_vars, fuse_vars, request_vars, listener_vars, worker_vars>>
    /\ UNCHANGED <<log_vars, api_vars>>
    /\ UNCHANGED <<proc_vars, life_vars, tf_vars>>

(***************************************************************************)
(* task_queue.py:167-220  listener thread; main.py:98-112  the handler.    *)
(***************************************************************************)
\* task_queue.py:176-182  connect and subscribe
ListenerSubscribe ==
    /\ lpc = "connect"
    /\ subscribed' = TRUE
    /\ lpc' = "get"
    /\ UNCHANGED <<worker_status, task_queues, inbox, data>>
    /\ UNCHANGED <<coord_vars, fuse_vars, request_vars, worker_vars, history_vars>>
    /\ UNCHANGED <<log_vars, api_vars>>
    /\ UNCHANGED <<proc_vars, life_vars, tf_vars>>

\* a listener that reads the newest message first
NextMessageNewest(messages) == messages[Len(messages)]

\* task_queue.py:185  get_message returns the messages in the order of delivery
NextMessage(messages) == Head(messages)

\* a listener that never looks at the stop signal
StopSeenNever(signal) == FALSE

\* task_queue.py:174, 186, 211  stop_event.is_set()
StopSeen(signal) == signal

\* a listener that takes every message for a record
DecodesAlways(message) == TRUE

\* task_queue.py:192-193  json.loads and PartialIndexData(**data_dict) succeed
Decodes(message) == message.valid

\* task_queue.py:185-198  get_message; a message that does not decode into a
\* PartialIndexData is logged and dropped; a message read after the stop
\* signal is left to ListenerStop (task_queue.py:186); for a valid one the handler is
\* called and reads the name global_inverted_index for the Fuser's first
\* argument (main.py:100-101), before the Fuser asks for the mutex
ListenerGet ==
    /\ lpc = "get"
    /\ ~StopSeen(stop_event)
    /\ inbox # <<>>
    /\ inbox' = Tail(inbox)
    /\ IF Decodes(NextMessage(inbox))
       THEN /\ data' = NextMessage(inbox)
            /\ merge_into_global' = TRUE
            /\ lpc' = "acquire_fuse"
            /\ UNCHANGED decode_errors
       ELSE /\ decode_errors' = decode_errors + 1
            /\ UNCHANGED <<data, lpc, merge_into_global>>
    /\ UNCHANGED <<worker_status, task_queues, subscribed>>
    /\ UNCHANGED <<coord_vars, fuse_vars, request_vars, worker_vars, history_vars>>
    /\ UNCHANGED <<log_vars, checkpoint, loaded_index, search_stem, search_term, response>>
    /\ UNCHANGED <<proc_vars, stop_event, merged_terms, tf_vars>>

\* task_queue.py:200-204  the connection breaks: the subscription and the
\* messages not yet read are gone, the loop connects again
ListenerConnectionError ==
    /\ lpc = "get"
    /\ subscribed' = FALSE
    /\ inbox' = <<>>
    /\ lpc' = "connect"
    /\ UNCHANGED <<worker_status, task_queues, data>>
    /\ UNCHANGED <<coord_vars, fuse_vars, request_vars, worker_vars, history_vars>>
    /\ UNCHANGED <<log_vars, api_vars>>
    /\ UNCHANGED <<proc_vars, life_vars, tf_vars>>

\* fuse.py:37-38, main.py:107  lock.acquire()
ListenerAcquire ==
    /\ lpc \in {"acquire_fuse", "acquire_remove"}
    /\ LockIsFree(index_lock)
    /\ index_lock' = "listener"
    /\ lpc' = IF lpc = "acquire_fuse" THEN "fuse" ELSE "remove"
    /\ UNCHANGED <<global_inverted_index, dispatched_docs_pending_results, data>>
    /\ UNCHANGED <<fuse_vars, broker_vars, request_vars, worker_vars, history_vars>>
    /\ UNCHANGED <<log_vars, api_vars>>
    /\ UNCHANGED <<proc_vars, life_vars, tf_vars>>

\* main.py:100-105, fuse.py:41-74  the merge into the dict that was passed,
\* lock released
ListenerFuse ==
    /\ lpc = "fuse"
    /\ global_inverted_index' =
           IF merge_into_global
           THEN merge_partial_index(global_inverted_index, data.partial_index, data.doc_id)
           ELSE global_inverted_index
    /\ index_lock' = None
    /\ lpc' = "acquire_remove"
    /\ unfused_tasks' = unfused_tasks \ {[serial |-> data.serial, doc_id |-> data.doc_id]}
    /\ UNCHANGED <<dispatched_docs_pending_results, data, n_foreign>>
    /\ UNCHANGED <<fuse_vars, broker_vars, request_vars, worker_vars>>
    /\ UNCHANGED <<log_vars, api_vars>>
    /\ UNCHANGED <<proc_vars, life_vars, tf_vars>>

\* a handler that marks a document it did not expect as pending
PendingAfterResultMarked(pending, doc_id) ==
    IF doc_id \in pending THEN pending \ {doc_id} ELSE pending \cup {doc_id}

\* a handler that leaves the pending set alone
PendingAfterResultKept(pending, doc_id) == pending

\* main.py:108-109  if data.doc_id in pending: pending.remove(data.doc_id)
PendingAfterResult(pending, doc_id) == pending \ {doc_id}

\* main.py:107-112  the doc_id leaves the pending set, lock released
ListenerRemove ==
    /\ lpc = "remove"
    /\ dispatched_docs_pending_results' =
           PendingAfterResult(dispatched_docs_pending_results, data.doc_id)
    /\ index_lock' = None
    /\ lpc' = "get"
    /\ UNCHANGED <<global_inverted_index, data>>
    /\ UNCHANGED <<fuse_vars, broker_vars, request_vars, worker_vars, history_vars>>
    /\ UNCHANGED <<log_vars, api_vars>>
    /\ UNCHANGED <<proc_vars, life_vars, tf_vars>>(***************************************************************************)
(* main.py:213-256  search, status, save and load endpoints.  They share   *)
(* the event loop with trigger_local_indexing_endpoint: one at a time.     *)
(***************************************************************************)
\* an ascending sort
FreqBeforeAscending(a, b) == a[2] < b[2]

\* main.py:224  key=lambda item: item[1], reverse=True
FreqBefore(a, b) == a[2] > b[2]

\* main.py:224  sorted(..., reverse=True) keeps the order of equal items
RECURSIVE InsertDoc(_, _)
InsertDoc(sorted_docs, item) ==
    IF sorted_docs = <<>> THEN <<item>>
    ELSE IF FreqBefore(item, Head(sorted_docs))
         THEN <<item>> \o sorted_docs
         ELSE <<Head(sorted_docs)>> \o InsertDoc(Tail(sorted_docs), item)

RECURSIVE SortDocs(_)
SortDocs(items) ==
    IF items = <<>> THEN <<>>
    ELSE InsertDoc(SortDocs(SubSeq(items, 1, Len(items) - 1)), items[Len(items)])

\* main.py:223-224  doc_freq_map.items(), in the order `order` of the keys
Items(doc_freq_map, order) == [i \in DOMAIN order |-> <<order[i], doc_freq_map[order[i]]>>]

\* main.py:215-218  the term is checked and normalized, without the mutex
ReqSearch(term) ==
    /\ rpc = "idle"
    /\ search_term' = [given |-> TRUE, text |-> term]
    /\ IF IsBlank(term)
       THEN /\ response' = [status |-> 400, docs |-> <<>>, detail |-> <<>>]
            /\ rpc' = "return"
            /\ UNCHANGED search_stem
       ELSE LET stemmed_terms == normalize_text(term)
            IN  IF stemmed_terms = <<>>
                THEN /\ response' = [status |-> 200, docs |-> <<>>, detail |-> <<>>]
                     /\ rpc' = "return"
                     /\ UNCHANGED search_stem
                ELSE /\ search_stem' = stemmed_terms[1]
                     /\ rpc' = "acquire_lookup"
                     /\ UNCHANGED response
    /\ UNCHANGED <<files_left, successful_files, failed_files_details, cur_task,
                   push_outcome, n_dispatched, select_vars, merge_into_global, checkpoint, loaded_index>>
    /\ UNCHANGED <<coord_vars, fuse_vars, broker_vars, listener_vars, worker_vars,
                   history_vars, log_vars>>
    /\ UNCHANGED <<proc_vars, life_vars, tf_vars>>

\* main.py:221-227  the lookup, the mutex held
ReqLookup(order) ==
    /\ rpc = "lookup"
    /\ IF search_stem \in Keys(global_inverted_index)
       THEN /\ order \in Orderings(Keys(global_inverted_index[search_stem]))
            /\ response' = [status |-> 200, detail |-> <<>>,
                            docs |-> SortDocs(Items(global_inverted_index[search_stem], order))]
       ELSE /\ order = <<>>
            /\ response' = [status |-> 200, docs |-> <<>>, detail |-> <<>>]
    /\ rpc' = "looked_up"
    /\ UNCHANGED <<files_left, successful_files, failed_files_details, cur_task,
                   push_outcome, n_dispatched, select_vars, search_term, merge_into_global, checkpoint, loaded_index,
                   search_stem>>
    /\ UNCHANGED <<coord_vars, fuse_vars, broker_vars, listener_vars, worker_vars,
                   history_vars, log_vars>>
    /\ UNCHANGED <<proc_vars, life_vars, tf_vars>>

\* main.py:221, 228  the with block ends
ReqLookupRelease ==
    /\ rpc = "looked_up"
    /\ index_lock' = None
    /\ rpc' = "return"
    /\ UNCHANGED <<global_inverted_index, dispatched_docs_pending_results>>
    /\ UNCHANGED <<files_left, successful_files, failed_files_details, cur_task,
                   push_outcome, n_dispatched, select_vars, api_vars>>
    /\ UNCHANGED <<fuse_vars, broker_vars, listener_vars, worker_vars, history_vars, log_vars>>
    /\ UNCHANGED <<proc_vars, life_vars, tf_vars>>

\* main.py:230-256  one of the endpoints that begin by taking the mutex
ReqEndpoint(name) ==
    /\ rpc = "idle"
    /\ name \in {"status", "save", "read"}
    /\ rpc' = IF name = "status" THEN "acquire_status"
              ELSE IF name = "save" THEN "acquire_save" ELSE "acquire_read"
    /\ UNCHANGED <<files_left, successful_files, failed_files_details, cur_task,
                   push_outcome, n_dispatched, select_vars, api_vars>>
    /\ UNCHANGED <<coord_vars, fuse_vars, broker_vars, listener_vars, worker_vars,
                   history_vars, log_vars>>
    /\ UNCHANGED <<proc_vars, life_vars, tf_vars>>

\* main.py:232-235  index_status_endpoint
ReqStatus ==
    /\ rpc = "status"
    /\ response' = [status |-> 200, docs |-> <<>>,
                    detail |-> <<Cardinality(Keys(global_inverted_index)),
                                 Cardinality(dispatched_docs_pending_results)>>]
    /\ index_lock' = None
    /\ rpc' = "return"
    /\ UNCHANGED <<global_inverted_index, dispatched_docs_pending_results>>
    /\ UNCHANGED <<files_left, successful_files, failed_files_details, cur_task,
                   push_outcome, n_dispatched, select_vars, search_term, merge_into_global, checkpoint, loaded_index,
                   search_stem>>
    /\ UNCHANGED <<fuse_vars, broker_vars, listener_vars, worker_vars, history_vars, log_vars>>
    /\ UNCHANGED <<proc_vars, life_vars, tf_vars>>

\* main.py:91-92  the file after a dump that broke off
CorruptFile == [state |-> "corrupt", index |-> EmptyDict]

\* main.py:85-95, 238-242  save_global_index_to_file: the index is written,
\* or an exception is caught and logged; the endpoint answers 200 either way
ReqSave(written) ==
    /\ rpc = "save"
    /\ checkpoint' \in (IF written
                        THEN {[state |-> "valid", index |-> global_inverted_index]}
                        ELSE {checkpoint, CorruptFile})
    /\ response' = [status |-> 200, docs |-> <<>>, detail |-> <<>>]
    /\ index_lock' = None
    /\ rpc' = "return"
    /\ UNCHANGED <<global_inverted_index, dispatched_docs_pending_results>>
    /\ UNCHANGED <<files_left, successful_files, failed_files_details, cur_task,
                   push_outcome, n_dispatched, select_vars, search_term, merge_into_global, loaded_index, search_stem>>
    /\ UNCHANGED <<fuse_vars, broker_vars, listener_vars, worker_vars, history_vars, log_vars>>
    /\ UNCHANGED <<proc_vars, life_vars, tf_vars>>

\* a load that returns to the reload with the mutex still held
LockAfterLoadKept(lock) == lock

\* main.py:65, 83  the with block of load_global_index_from_file is left
\* before the reload enters its own (main.py:251-252)
LockAfterLoad(lock) == None

\* main.py:251, 64-83  the file is read, the mutex held
ReqRead ==
    /\ rpc = "read"
    /\ loaded_index' = IndexOfFile(checkpoint)
    /\ index_lock' = LockAfterLoad(index_lock)
    /\ rpc' = "acquire_swap"
    /\ UNCHANGED <<global_inverted_index, dispatched_docs_pending_results>>
    /\ UNCHANGED <<files_left, successful_files, failed_files_details, cur_task,
                   push_outcome, n_dispatched, select_vars, search_term, merge_into_global, checkpoint, search_stem, response>>
    /\ UNCHANGED <<fuse_vars, broker_vars, listener_vars, worker_vars, history_vars, log_vars>>
    /\ UNCHANGED <<proc_vars, life_vars, tf_vars>>

\* main.py:252-256  the index is rebound and the pending set cleared; a
\* handler that has read the name global_inverted_index (main.py:100-101)
\* and waits for the mutex is left with the dict that was bound before
ReqSwap ==
    /\ rpc = "swap"
    /\ global_inverted_index' = loaded_index
    /\ merge_into_global' = (lpc # "acquire_fuse" /\ merge_into_global)
    /\ dispatched_docs_pending_results' = {}
    /\ index_lock' = None
    /\ response' = [status |-> 200, docs |-> <<>>, detail |-> <<>>]
    /\ rpc' = "return"
    /\ UNCHANGED <<files_left, successful_files, failed_files_details, cur_task,
                   push_outcome, n_dispatched, select_vars, search_term, checkpoint, loaded_index,
                   search_stem>>
    /\ UNCHANGED <<fuse_vars, broker_vars, listener_vars, worker_vars, history_vars, log_vars>>
    /\ UNCHANGED <<proc_vars, life_vars, tf_vars>>

\* the response is sent, the locals of the endpoint are gone
ReqReturn ==
    /\ rpc = "return"
    /\ rpc' = "idle"
    /\ response' = NoResponse
    /\ search_stem' = None
    /\ search_term' = NoTerm
    /\ loaded_index' = EmptyDict
    /\ UNCHANGED <<files_left, successful_files, failed_files_details, cur_task,
                   push_outcome, n_dispatched, select_vars, merge_into_global, checkpoint>>
    /\ UNCHANGED <<coord_vars, fuse_vars, broker_vars, listener_vars, worker_vars,
                   history_vars, log_vars>>
    /\ UNCHANGED <<proc_vars, life_vars, tf_vars>>
(***************************************************************************)
(* worker.py:151-237  the worker process: main_loop and the threads that   *)
(* run report_status_periodically.                                         *)
(***************************************************************************)
\* worker.py:152-153  prev_cpu = prev_ram = -1.0
NeverReported == -1

\* worker.py:152-160  a thread that enters its loop
NewStatusThread ==
    [pc |-> "measure", prev_cpu |-> NeverReported, prev_ram |-> NeverReported, tick_ok |-> TRUE]

\* worker.py:209-214  the main loop has no client: get_redis_client, which
\* builds and pings a client when the module has none (worker.py:62-70) and
\* returns the module's client otherwise; then a status thread is started
\* when main_loop holds none
MainConnect(w, reachable) ==
    /\ ~r_client[w]
    /\ IF ~redis_client[w] /\ ~reachable
       THEN /\ status_thread' = [status_thread EXCEPT ![w] = FALSE]
            /\ UNCHANGED <<redis_client, r_client, status_threads>>
       ELSE /\ redis_client' = [redis_client EXCEPT ![w] = TRUE]
            /\ r_client' = [r_client EXCEPT ![w] = TRUE]
            /\ IF status_thread[w]
               THEN UNCHANGED <<status_thread, status_threads>>
               ELSE /\ Len(status_threads[w]) < MaxThreads
                    /\ status_thread' = [status_thread EXCEPT ![w] = TRUE]
                    /\ status_threads' =
                           [status_threads EXCEPT ![w] = Append(@, NewStatusThread)]
    /\ UNCHANGED <<coord_vars, fuse_vars, broker_vars, request_vars, listener_vars,
                   worker_vars, history_vars, log_vars, api_vars, life_vars, tf_vars>>

\* worker.py:221, 229-237  blpop raises ConnectionError: main_loop forgets
\* its thread and its client; `redis_client = None` binds a local name of
\* main_loop, the module's client stays; the thread is not stopped
MainConnectionError(w) ==
    /\ r_client[w]
    /\ status_thread' = [status_thread EXCEPT ![w] = FALSE]
    /\ r_client' = [r_client EXCEPT ![w] = FALSE]
    /\ UNCHANGED <<redis_client, status_threads>>
    /\ UNCHANGED <<coord_vars, fuse_vars, broker_vars, request_vars, listener_vars,
                   worker_vars, history_vars, log_vars, api_vars, life_vars, tf_vars>>

\* worker.py:168  the values differ from the last ones written, or nothing
\* was written yet (loads are whole numbers here: a difference exceeds 0.01)
MustReport(thread, raw_cpu_percent, current_ram) ==
    \/ raw_cpu_percent # thread.prev_cpu
    \/ current_ram # thread.prev_ram
    \/ thread.prev_cpu = NeverReported

\* worker.py:162-182  first half of a tick of thread i of worker w: measure,
\* and hset when the values changed; a RedisError is logged
BeatMeasure(w, i, raw_cpu_percent, current_ram, reachable) ==
    /\ i \in DOMAIN status_threads[w]
    /\ status_threads[w][i].pc = "measure"
    /\ LET thread == status_threads[w][i]
       IN  IF MustReport(thread, raw_cpu_percent, current_ram)
           THEN IF reachable
                THEN /\ worker_status' = [worker_status EXCEPT
                            ![w] = Hset(@, StringOfFloat[raw_cpu_percent], StringOfFloat[current_ram])]
                     /\ status_threads' = [status_threads EXCEPT ![w][i] =
                            [pc |-> "expire", prev_cpu |-> raw_cpu_percent,
                             prev_ram |-> current_ram, tick_ok |-> TRUE]]
                ELSE /\ UNCHANGED worker_status
                     /\ status_threads' = [status_threads EXCEPT ![w][i] =
                            [thread EXCEPT !.pc = "expire", !.tick_ok = FALSE]]
           ELSE /\ UNCHANGED worker_status
                /\ status_threads' = [status_threads EXCEPT ![w][i] =
                       [thread EXCEPT !.pc = "expire", !.tick_ok = TRUE]]
    /\ UNCHANGED <<task_queues, subscribed, inbox>>
    /\ UNCHANGED <<redis_client, r_client, status_thread>>
    /\ UNCHANGED <<coord_vars, fuse_vars, request_vars, listener_vars,
                   worker_vars, history_vars, log_vars, api_vars, life_vars, tf_vars>>

\* worker.py:184-190  second half of the tick: expire, always; a RedisError
\* is logged; then the thread sleeps for the interval
BeatExpire(w, i, reachable) ==
    /\ i \in DOMAIN status_threads[w]
    /\ status_threads[w][i].pc = "expire"
    /\ worker_status' = IF reachable
                        THEN [worker_status EXCEPT ![w] = Expire(@, ttl_seconds)]
                        ELSE worker_status
    /\ status_threads' = [status_threads EXCEPT ![w][i] =
           [@ EXCEPT !.pc = "measure", !.tick_ok = @ /\ reachable]]
    /\ UNCHANGED <<task_queues, subscribed, inbox>>
    /\ UNCHANGED <<redis_client, r_client, status_thread>>
    /\ UNCHANGED <<coord_vars, fuse_vars, request_vars, listener_vars,
                   worker_vars, history_vars, log_vars, api_vars, life_vars, tf_vars>>

\* worker.py:123  partial_index = calculate_tf(processed_tokens, doc_id)
CalculateTf(tokens, doc_id) ==
    /\ tf_tokens' = tokens
    /\ tf_doc_id' = doc_id
    /\ tf_map' = calculate_tf(tokens, doc_id)
    /\ UNCHANGED <<coord_vars, fuse_vars, broker_vars, request_vars, listener_vars,
                   worker_vars, history_vars, log_vars, api_vars, proc_vars, life_vars>>

\* what hgetall may find under a field of a status hash: nothing, the
\* string of a float, a string that float() rejects
StatusFields == {None, "5.0", "10.0", "n/a"}

\* the status hash with the fields that are there
StatusHash(cpu_str, ram_str) ==
    (IF cpu_str # None THEN "cpu" :> cpu_str ELSE EmptyDict)
    @@ (IF ram_str # None THEN "ram" :> ram_str ELSE EmptyDict)

\* task_queue.py:74-75  the hash the dispatcher will read was written by some
\* client of the broker, not necessarily by a worker of this version
ClientHset(w, cpu_str, ram_str) ==
    /\ worker_status' = [worker_status EXCEPT
           ![w] = [ttl |-> IF @.ttl = KeyMissing THEN NoExpiry ELSE @.ttl,
                   hash |-> StatusHash(cpu_str, ram_str)]]
    /\ worker_status'[w] # worker_status[w]
    /\ UNCHANGED <<task_queues, subscribed, inbox>>
    /\ UNCHANGED <<coord_vars, fuse_vars, request_vars, listener_vars, worker_vars,
                   history_vars, log_vars, api_vars, proc_vars, life_vars, tf_vars>>

(***************************************************************************)
(* The merge loop of the Fuser step by step, the stop of the listener and  *)
(* the shutdown of the coordinator.                                        *)
(***************************************************************************)
\* a Fuser without the finally clause
LockAfterMergeNoFinally(raised) == IF raised THEN "listener" ELSE None

\* fuse.py:72-74  finally: lock.release(), on return and on exception
LockAfterMerge(raised) == None

\* fuse.py:44-70  one iteration of the loop over partial_index.items(), the
\* mutex held
ListenerMergeTerm(term) ==
    /\ lpc = "fuse"
    /\ term \in Keys(data.partial_index) \ merged_terms
    /\ merged_terms' = merged_terms \cup {term}
    /\ global_inverted_index' =
           IF merge_into_global
           THEN MergeTerm(global_inverted_index, term, data.partial_index[term], data.doc_id)
           ELSE global_inverted_index
    /\ UNCHANGED <<dispatched_docs_pending_results, index_lock>>
    /\ UNCHANGED <<fuse_vars, broker_vars, request_vars, listener_vars, worker_vars,
                   history_vars, log_vars, api_vars>>
    /\ UNCHANGED <<proc_vars, stop_event, decode_errors, tf_vars>>

\* fuse.py:72-74, main.py:106  the loop is over: the mutex is released and the
\* handler goes on
ListenerMergeEnd ==
    /\ lpc = "fuse"
    /\ merged_terms = Keys(data.partial_index)
    /\ merged_terms' = {}
    /\ index_lock' = LockAfterMerge(FALSE)
    /\ lpc' = "acquire_remove"
    /\ unfused_tasks' = unfused_tasks \ {[serial |-> data.serial, doc_id |-> data.doc_id]}
    /\ UNCHANGED <<global_inverted_index, dispatched_docs_pending_results, data, n_foreign>>
    /\ UNCHANGED <<fuse_vars, broker_vars, request_vars, worker_vars, log_vars, api_vars>>
    /\ UNCHANGED <<proc_vars, stop_event, decode_errors, tf_vars>>

\* a listener that ends with the exception of its handler
AfterHandlerErrorExit(message) == "done"

\* task_queue.py:191-198  the exception of message_handler_callback is caught
\* inside the while loop and logged: the loop goes to its next get_message
AfterHandlerError(message) == "get"

\* fuse.py:41-74, task_queue.py:197-198  an exception inside the try block
\* (a stored entry that is no dict, a failing log handler, no memory): the
\* finally clause runs, the exception leaves the handler before its second
\* block and is logged by the listener, which reads on
ListenerMergeRaise ==
    /\ lpc = "fuse"
    /\ merged_terms' = {}
    /\ index_lock' = LockAfterMerge(TRUE)
    /\ lpc' = AfterHandlerError(data)
    /\ UNCHANGED <<global_inverted_index, dispatched_docs_pending_results, data>>
    /\ UNCHANGED <<fuse_vars, broker_vars, request_vars, worker_vars, history_vars,
                   log_vars, api_vars>>
    /\ UNCHANGED <<proc_vars, stop_event, decode_errors, tf_vars>>

\* task_queue.py:174, 186, 211-220  the loop sees the stop signal at its top,
\* after get_message (a message just read is dropped) or after the back-off:
\* it unsubscribes, closes and the thread ends
ListenerStop ==
    /\ lpc \in {"connect", "get"}
    /\ StopSeen(stop_event)
    /\ lpc' = "done"
    /\ subscribed' = FALSE
    /\ inbox' = <<>>
    /\ UNCHANGED <<worker_status, task_queues, data>>
    /\ UNCHANGED <<coord_vars, fuse_vars, request_vars, worker_vars, history_vars,
                   log_vars, api_vars>>
    /\ UNCHANGED <<proc_vars, life_vars, tf_vars>>

\* worker.py:135  a worker publishes the result of a task that no dispatch
\* of this run of the coordinator accounts for, or something else is
\* published on the channel
LatePublish(message) ==
    /\ n_foreign < MaxLate
    /\ n_foreign' = n_foreign + 1
    /\ Publish(message)
    /\ UNCHANGED <<worker_status, task_queues, subscribed, unfused_tasks>>
    /\ UNCHANGED <<coord_vars, fuse_vars, request_vars, listener_vars, worker_vars>>
    /\ UNCHANGED <<log_vars, api_vars>>
    /\ UNCHANGED <<proc_vars, life_vars, tf_vars>>

\* main.py:135-139  the server has stopped serving; the shutdown part of
\* lifespan sets the stop signal of the listener, which is alive
ShutdownBegin ==
    /\ rpc = "idle"
    /\ lpc # "done"
    /\ stop_event' = TRUE
    /\ rpc' = "join"
    /\ UNCHANGED <<files_left, successful_files, failed_files_details, cur_task,
                   push_outcome, n_dispatched, select_vars>>
    /\ UNCHANGED <<coord_vars, fuse_vars, broker_vars, listener_vars, worker_vars,
                   history_vars, log_vars, api_vars>>
    /\ UNCHANGED <<proc_vars, merged_terms, decode_errors, tf_vars>>

\* main.py:139-144  join(timeout=10) returns: the thread has ended, or the
\* ten seconds are over; save_global_index_to_file is called
ShutdownJoin(timed_out) ==
    /\ rpc = "join"
    /\ timed_out \/ lpc = "done"
    /\ rpc' = "acquire_final_save"
    /\ UNCHANGED <<files_left, successful_files, failed_files_details, cur_task,
                   push_outcome, n_dispatched, select_vars>>
    /\ UNCHANGED <<coord_vars, fuse_vars, broker_vars, listener_vars, worker_vars,
                   history_vars, log_vars, api_vars>>
    /\ UNCHANGED <<proc_vars, life_vars, tf_vars>>

\* main.py:85-95, 144-145  the checkpoint is written, or the error is logged;
\* the shutdown is complete
ShutdownSave(written) ==
    /\ rpc = "final_save"
    /\ checkpoint' \in (IF written
                        THEN {[state |-> "valid", index |-> global_inverted_index]}
                        ELSE {checkpoint, CorruptFile})
    /\ index_lock' = None
    /\ rpc' = "off"
    /\ UNCHANGED <<global_inverted_index, dispatched_docs_pending_results>>
    /\ UNCHANGED <<files_left, successful_files, failed_files_details, cur_task,
                   push_outcome, n_dispatched, select_vars, loaded_index, search_stem,
                   search_term, response, merge_into_global>>
    /\ UNCHANGED <<fuse_vars, broker_vars, listener_vars, worker_vars, history_vars, log_vars>>
    /\ UNCHANGED <<proc_vars, life_vars, tf_vars>>
(***************************************************************************)
(* Direct calls of the Fuser with arbitrary JSON-shaped partial indexes.   *)
(***************************************************************************)
\* values a caller may put where a frequency belongs
FrequencyInputs == {PyInt(n) : n \in (-1)..MaxFreq} \cup {PyStr}

\* inner maps a caller may supply for a record of doc_id: no entry, one entry
\* under its own doc_id, an entry under another document, both, or no dict
InnerMapInputs(doc_id) ==
    {PyDict(EmptyDict), PyList}
    \cup {PyDict(doc_id :> f) : f \in FrequencyInputs}
    \cup {PyDict(other :> PyInt(MaxFreq)) : other \in DocIds \ {doc_id}}
    \cup {PyDict((doc_id :> PyInt(MaxFreq)) @@ (other :> PyInt(MaxFreq))) :
              other \in DocIds \ {doc_id}}

PartialInputs(doc_id) == Dicts(Terms, InnerMapInputs(doc_id))

\* worker.py:84  a well-formed inner map: exactly one entry, keyed by doc_id
IsWellFormedInner(doc_freq_map, doc_id) ==
    /\ IsDictValue(doc_freq_map)
    /\ Keys(doc_freq_map.items) = {doc_id}
    /\ IsNonNegInt(doc_freq_map.items[doc_id])

IsWellFormedPartial(partial_index, doc_id) ==
    \A t \in Keys(partial_index) : IsWellFormedInner(partial_index[t], doc_id)

WellFormedPartials(doc_id) ==
    Dicts(Terms, {PyDict(doc_id :> PyInt(n)) : n \in 0..MaxFreq})

\* fuse.py:15-74 called on the coordinator's index
FuseCall(partial_index, doc_id) ==
    /\ index_before' = global_inverted_index
    /\ last_merge' = [partial_index |-> partial_index, doc_id |-> doc_id]
    /\ global_inverted_index' =
           merge_partial_index(global_inverted_index, partial_index, doc_id)
    /\ UNCHANGED <<dispatched_docs_pending_results, index_lock>>
    /\ UNCHANGED <<broker_vars, request_vars, listener_vars, worker_vars, history_vars>>
    /\ UNCHANGED <<log_vars, api_vars>>
    /\ UNCHANGED <<proc_vars, life_vars, tf_vars>>

FuseNext == \E doc_id \in DocIds : \E partial_index \in PartialInputs(doc_id) :
                FuseCall(partial_index, doc_id)

SpecFuse == Init /\ [][FuseNext]_vars

(***************************************************************************)
(* The request handler's steps, for the files and workers of a run.        *)
(***************************************************************************)
Request(docs, contents) ==
    \/ \E files \in SUBSET docs : ReqStart(files)
    \/ \E doc_id \in docs : \E content \in contents : ReqNextFile(doc_id, content)
    \/ \E doc_id \in docs : ReqFileError(doc_id)
    \/ ReqAcquire
    \/ ReqAdd
    \/ \E order \in Orderings(ExistingKeys(worker_status)) : ReqKeys(order)
    \/ ReqTtl
    \/ ReqHgetall
    \/ ReqLlen
    \/ ReqSort
    \/ ReqRpush
    \/ ReqBrokerError
    \/ ReqDiscard
    \/ ReqContinue
    \/ ReqEnd

Heartbeats(workers, loads) ==
    \/ \E w \in workers : \E load \in loads : HeartbeatHset(w, load, load)
    \/ \E w \in workers : HeartbeatExpire(w)
    \/ \E w \in workers : StatusKeyExpires(w)

WorkerSteps(workers) ==
    \/ \E w \in workers : WorkerPop(w)
    \/ \E w \in workers : WorkerProcess(w)

\* the orders in which a dict may list its keys
KeyOrders == UNION {Orderings(S) : S \in SUBSET (DocIds \cup {ForeignDocId})}

SearchSteps(terms) ==
    \/ \E term \in terms : ReqSearch(term)
    \/ \E order \in KeyOrders : ReqLookup(order)
    \/ ReqLookupRelease
    \/ ReqReturn

Endpoints(terms) ==
    \/ SearchSteps(terms)
    \/ \E name \in {"status", "save", "read"} : ReqEndpoint(name)
    \/ ReqStatus
    \/ \E written \in BOOLEAN : ReqSave(written)
    \/ ReqRead
    \/ ReqSwap

Listener ==
    \/ ListenerSubscribe
    \/ ListenerGet
    \/ ListenerAcquire
    \/ ListenerFuse
    \/ ListenerRemove

(***************************************************************************)
(* Spec: coordinator, a worker, the results channel.                        *)
(***************************************************************************)
SysWorkers == {"A"}
SysLoads == {10}
\* the document that is submitted, once or again
SysDocs == {"d9.txt"}
\* an empty file, a file of stopwords, a file with two words of one stem
SysContents == {<<>>, <<"The">>, <<"fox", "foxes">>}

Next ==
    \/ Request(SysDocs, SysContents)
    \/ Heartbeats(SysWorkers, SysLoads)
    \/ WorkerSteps(SysWorkers)
    \/ Listener
    \/ \E doc_id \in SysDocs : ForeignPublish(ContaminatedRecord(doc_id))

Spec == Init /\ [][Next]_vars

(***************************************************************************)
(* SpecSelect: the dispatcher against three workers of varying load.       *)
(***************************************************************************)
SelectDocs == {"d1.txt"}
SelectContents == {<<"fox", "foxes">>}
SelectLoads == {5, 10}
SelectWorkers == {"A", "B"}

SelectNext ==
    \/ Request(SelectDocs, SelectContents)
    \/ Heartbeats(SelectWorkers, SelectLoads)

SpecSelect == Init /\ [][SelectNext]_vars

(***************************************************************************)
(* SpecBalance: dispatches one after the other over workers that register  *)
(* while every queue is empty and go on sending heartbeats; no worker pops *)
(* and no status key runs out.                                             *)
(***************************************************************************)
\* worker.py:151-190  the first heartbeat of a worker creates its status key
WorkerRegisters(w, load) ==
    /\ worker_status[w].ttl = KeyMissing
    /\ rpc = "idle"
    /\ \A v \in Workers : task_queues[v] = <<>>
    /\ HeartbeatHset(w, load, load)

\* worker.py:151-190  the later heartbeats of a worker: hset, then expire
WorkerReports(w, load) ==
    /\ worker_status[w].ttl # KeyMissing
    /\ (HeartbeatHset(w, load, load) \/ HeartbeatExpire(w))

BalanceNext ==
    \/ Request(SelectDocs, SelectContents)
    \/ \E w \in SelectWorkers : \E load \in SelectLoads : WorkerRegisters(w, load)
    \/ \E w \in SelectWorkers : \E load \in SelectLoads : WorkerReports(w, load)

SpecBalance == Init /\ [][BalanceNext]_vars

(***************************************************************************)
(* SpecApi: the coordinator with all its endpoints, a worker, the results  *)
(* channel.                                                                *)
(***************************************************************************)
\* a file of stopwords, a file with two words of one stem
ApiContents == {<<"The">>, <<"fox", "foxes">>}
ApiTerms == {<<"foxes">>}

ApiNext ==
    \/ Request(SysDocs, ApiContents)
    \/ Endpoints(ApiTerms)
    \/ \E w \in SysWorkers : \E load \in SysLoads : HeartbeatHset(w, load, load)
    \/ WorkerSteps(SysWorkers)
    \/ \E w \in SysWorkers : WorkerProcessError(w)
    \/ Listener
    \/ ListenerConnectionError

SpecApi == Init /\ [][ApiNext]_vars

(***************************************************************************)
(* SpecQuery: searches against an index loaded at startup, while a late    *)
(* result is fused.                                                        *)
(***************************************************************************)
\* indexes a checkpoint may hold: distinct frequencies, equal ones, three
\* documents, a term left with no document
QueryIndexes ==
    { ("fox" :> (("d1.txt" :> 1) @@ ("d9.txt" :> 2))) @@ ("quick" :> EmptyDict),
      ("fox" :> (("d1.txt" :> 2) @@ ("d9.txt" :> 1) @@ (ForeignDocId :> 2)))
          @@ ("quick" :> ("d9.txt" :> 1)),
      ("fox" :> (("d1.txt" :> 1) @@ ("d9.txt" :> 1))) }

QueryFiles == {NoFile} \cup {[state |-> "valid", index |-> index] : index \in QueryIndexes}

\* a blank term, a stopword, a word with a stem, a word that comes first
QueryTerms == {<<>>, <<"The">>, <<"foxes">>, <<"quick", "fox">>}

\* worker.py:128-135  the result of a task that was dispatched before the
\* coordinator restarted, published after the restart
LateResult(doc_id) ==
    [worker_id |-> "A", doc_id |-> doc_id,
     partial_index |-> ("fox" :> PyDict(doc_id :> PyInt(3))),
     serial |-> 0, valid |-> TRUE]

QueryInit == \E file \in QueryFiles : Started(file)

QueryNext ==
    \/ SearchSteps(QueryTerms)
    \/ ReqAcquire
    \/ Listener
    \/ ForeignPublish(LateResult("d1.txt"))

SpecQuery == QueryInit /\ [][QueryNext]_vars

(***************************************************************************)
(* SpecWork: one document submitted again and again, two workers that pop  *)
(* and process, the listener.                                              *)
(***************************************************************************)
WorkWorkers == {"A", "B"}
WorkDocs == {"d1.txt"}
\* two versions of the file: the stem fox twice, the stem fox once
WorkContents == {<<"fox", "foxes">>, <<"quick", "fox">>}

WorkNext ==
    \/ Request(WorkDocs, WorkContents)
    \/ \E w \in WorkWorkers : \E load \in SysLoads : HeartbeatHset(w, load, load)
    \/ WorkerSteps(WorkWorkers)
    \/ \E w \in WorkWorkers : WorkerProcessError(w)
    \/ Listener

SpecWork == Init /\ [][WorkNext]_vars

(***************************************************************************)
(* SpecBeat: one worker process, its status threads and its status key.    *)
(***************************************************************************)
BeatWorkers == {"A"}
BeatCpus == {5, 10}
BeatRams == {10}

BeatNext ==
    \/ \E w \in BeatWorkers : \E reachable \in BOOLEAN : MainConnect(w, reachable)
    \/ \E w \in BeatWorkers : MainConnectionError(w)
    \/ \E w \in BeatWorkers : \E i \in 1..(MaxThreads + 1) :
          \E cpu \in BeatCpus : \E ram \in BeatRams : \E reachable \in BOOLEAN :
             BeatMeasure(w, i, cpu, ram, reachable)
    \/ \E w \in BeatWorkers : \E i \in 1..(MaxThreads + 1) : \E reachable \in BOOLEAN :
          BeatExpire(w, i, reachable)
    \/ \E w \in BeatWorkers : StatusKeyExpires(w)

SpecBeat == Init /\ [][BeatNext]_vars

(***************************************************************************)
(* SpecLife: the coordinator from startup to shutdown: a checkpoint file   *)
(* in any condition, results and other messages on the channel, the        *)
(* listener with the merge loop step by step, the reload, the shutdown.    *)
(***************************************************************************)
\* what a checkpoint written earlier holds
LifeIndex == "fox" :> PyDict("d9.txt" :> PyInt(2))

\* no file, a file that is not gzip, gzip around text that is not JSON (it
\* was cut short), a good file
LifeFiles ==
    {NoFile,
     [state |-> "not_gzip", index |-> LifeIndex],
     [state |-> "bad_json", index |-> LifeIndex],
     [state |-> "valid", index |-> LifeIndex]}

\* worker.py:128-135  the result of a worker for a document with two stems
LifeResult ==
    [worker_id |-> "A", doc_id |-> "d1.txt",
     partial_index |-> ("fox" :> PyDict("d1.txt" :> PyInt(1)))
                       @@ ("quick" :> PyDict("d1.txt" :> PyInt(1))),
     serial |-> 0, valid |-> TRUE]

\* a message that json.loads rejects (task_queue.py:195)
NotJson ==
    [worker_id |-> None, doc_id |-> None, partial_index |-> EmptyDict,
     serial |-> 0, valid |-> FALSE]

\* a JSON object without doc_id: PartialIndexData(**data_dict) raises
\* (task_queue.py:197)
NotARecord ==
    [worker_id |-> "A", doc_id |-> None, partial_index |-> EmptyDict,
     serial |-> 0, valid |-> FALSE]

LifeMessages == {LifeResult, NotJson, NotARecord}

LifeListener ==
    \/ ListenerSubscribe
    \/ ListenerGet
    \/ ListenerConnectionError
    \/ ListenerAcquire
    \/ \E term \in Terms : ListenerMergeTerm(term)
    \/ ListenerMergeEnd
    \/ ListenerMergeRaise
    \/ ListenerRemove
    \/ ListenerStop

Shutdown ==
    \/ ShutdownBegin
    \/ \E timed_out \in BOOLEAN : ShutdownJoin(timed_out)
    \/ \E written \in BOOLEAN : ShutdownSave(written)

LifeInit == \E file \in LifeFiles : Started(file)

LifeNext ==
    \/ \E message \in LifeMessages : LatePublish(message)
    \/ LifeListener
    \/ ReqEndpoint("read")
    \/ ReqAcquire
    \/ ReqRead
    \/ ReqSwap
    \/ ReqReturn
    \/ Shutdown

SpecLife == LifeInit /\ [][LifeNext]_vars

\* the threads of the process are scheduled: the listener reaches its next
\* check of the stop signal, a handler that can go on goes on, and a
\* shutdown that has begun takes its next step (join returns after ten
\* seconds at the latest, a free mutex is acquired)
SpecLifeFair ==
    /\ SpecLife
    /\ WF_vars(ListenerStop)
    /\ WF_vars(ListenerAcquire)
    /\ WF_vars((\E term \in Terms : ListenerMergeTerm(term)) \/ ListenerMergeEnd
                  \/ ListenerMergeRaise)
    /\ WF_vars(ListenerRemove)
    /\ WF_vars(ReqAcquire)
    /\ WF_vars(\E timed_out \in BOOLEAN : ShutdownJoin(timed_out))
    /\ WF_vars(\E written \in BOOLEAN : ShutdownSave(written))

(***************************************************************************)
(* SpecTf: calculate_tf on the token lists of documents.                   *)
(***************************************************************************)
\* stems as normalize_text returns them
TfTokens == {"fox", "quick", "dog"}

RECURSIVE SeqsUpTo(_, _)
SeqsUpTo(S, n) ==
    IF n = 0 THEN {<<>>}
    ELSE LET shorter == SeqsUpTo(S, n - 1)
         IN  shorter \cup {Append(q, x) : q \in shorter, x \in S}

TfNext == \E tokens \in SeqsUpTo(TfTokens, MaxTokens) : \E doc_id \in DocIds :
              CalculateTf(tokens, doc_id)

SpecTf == Init /\ [][TfNext]_vars

(***************************************************************************)
(* SpecLoad: dispatches over status hashes with missing and non-numeric    *)
(* fields.                                                                 *)
(***************************************************************************)
LoadWorkers == {"A"}

LoadNext ==
    \/ Request(SelectDocs, SelectContents)
    \/ \E w \in LoadWorkers : \E cpu_str \in StatusFields : \E ram_str \in StatusFields :
          ClientHset(w, cpu_str, ram_str)

SpecLoad == Init /\ [][LoadNext]_vars

(***************************************************************************)
(* SpecTasks: a worker whose queue holds good and malformed tasks, the     *)
(* listener.                                                               *)
(***************************************************************************)
GoodTask == [doc_id |-> "d1.txt", content |-> <<"fox", "foxes">>, serial |-> 0]

\* a string that is no JSON, JSON without doc_id, JSON without content
NotJsonTask ==
    [doc_id |-> None, content |-> <<>>, serial |-> 0, malformed |-> "not_json"]
NoDocIdTask ==
    [doc_id |-> None, content |-> <<"quick">>, serial |-> 0, malformed |-> "no_doc_id"]
NoContentTask ==
    [doc_id |-> "d9.txt", content |-> <<>>, serial |-> 0, malformed |-> "no_content"]

TaskInputs == {GoodTask, NotJsonTask, NoDocIdTask, NoContentTask}

TasksNext ==
    \/ \E w \in LoadWorkers : \E task \in TaskInputs : ClientRpush(w, task)
    \/ WorkerSteps(LoadWorkers)
    \/ \E w \in LoadWorkers : WorkerProcessMalformed(w)
    \/ \E w \in LoadWorkers : WorkerProcessError(w)
    \/ Listener

SpecTasks == Init /\ [][TasksNext]_vars

(***************************************************************************)
(* SpecLock: every code path of the coordinator that takes the mutex: the  *)
(* dispatch (no worker is live, every push fails), search, status, save,   *)
(* reload, the listener's handler.                                         *)
(***************************************************************************)
LockDispatch ==
    \/ \E files \in SUBSET SysDocs : ReqStart(files)
    \/ \E doc_id \in SysDocs : \E content \in SysContents : ReqNextFile(doc_id, content)
    \/ \E doc_id \in SysDocs : ReqFileError(doc_id)
    \/ ReqAdd
    \/ \E order \in Orderings(ExistingKeys(worker_status)) : ReqKeys(order)
    \/ ReqBrokerError
    \/ ReqDiscard
    \/ ReqContinue
    \/ ReqEnd

LockNext ==
    \/ LockDispatch
    \/ ReqAcquire
    \/ SearchSteps(ApiTerms)
    \/ \E name \in {"status", "save", "read"} : ReqEndpoint(name)
    \/ ReqStatus
    \/ ReqSave(TRUE)
    \/ ReqRead
    \/ ReqSwap
    \/ ForeignPublish(LateResult("d9.txt"))
    \/ Listener

SpecLock == Init /\ [][LockNext]_vars

\* a step of the thread that holds the mutex
HolderStep ==
    /\ LockNext
    /\ \/ index_lock = "request" /\ rpc' # rpc
       \/ index_lock = "listener" /\ lpc' # lpc

\* the thread that holds the mutex runs on to the end of its block, and a
\* thread blocked in acquire() gets the mutex if it is free again and again
SpecLockFair ==
    /\ SpecLock
    /\ WF_vars(HolderStep)
    /\ SF_vars(ReqAcquire)
    /\ SF_vars(ListenerAcquire)
(***************************************************************************)
(* Properties of the Fuser, under SpecFuse.                                *)
(***************************************************************************)
\* the entry of term t of the last merged partial is a map that holds a
\* non-negative integer for the merged document
LastEntryValid(t) ==
    LET e == last_merge.partial_index[t]
        d == last_merge.doc_id
    IN  /\ e.type = "dict"
        /\ d \in DOMAIN e.items
        /\ e.items[d].type = "int"
        /\ e.items[d].val >= 0

\* the frequency the index holds for (t, d), or -1 when it holds none
Stored(index, t, d) ==
    IF t \in DOMAIN index /\ d \in DOMAIN index[t] THEN index[t][d] ELSE -1

\* the index says the same about term t in both
SameOnTerm(a, b, t) ==
    /\ (t \in DOMAIN a) = (t \in DOMAIN b)
    /\ t \in DOMAIN a => a[t] = b[t]

\* C1: after fuse(G, partial, d), for every term t whose entry in the partial is
\* a map holding a non-negative integer f for d, G[t][d] = f, whatever G[t][d]
\* was before (the second of two records for the same d decides).
C1_Overwrite ==
    last_merge.doc_id # None =>
        \A t \in DOMAIN last_merge.partial_index :
            LastEntryValid(t) =>
                Stored(global_inverted_index, t, last_merge.doc_id)
                    = last_merge.partial_index[t].items[last_merge.doc_id].val

\* a merge that overwrote a different frequency stored by an earlier record
C1_Witness ==
    /\ last_merge.doc_id # None
    /\ \E t \in DOMAIN last_merge.partial_index :
           /\ LastEntryValid(t)
           /\ Stored(index_before, t, last_merge.doc_id) >= 0
           /\ Stored(index_before, t, last_merge.doc_id)
                  # last_merge.partial_index[t].items[last_merge.doc_id].val
           /\ Stored(global_inverted_index, t, last_merge.doc_id)
                  = last_merge.partial_index[t].items[last_merge.doc_id].val

\* C2: two well-formed partial records of distinct documents give the same
\* index in both orders: with p the record just fused into an index B, every
\* well-formed record q of another document gives fuse(fuse(B, q), p) =
\* fuse(fuse(B, p), q).
C2_Commutes ==
    (/\ last_merge.doc_id # None
     /\ IsWellFormedPartial(last_merge.partial_index, last_merge.doc_id)) =>
        \A d2 \in DocIds \ {last_merge.doc_id} : \A q \in WellFormedPartials(d2) :
            merge_partial_index(merge_partial_index(index_before, q, d2),
                                last_merge.partial_index, last_merge.doc_id)
              = merge_partial_index(global_inverted_index, q, d2)

\* the last merge was of a well-formed record p of d, and a well-formed record
\* q of another document that writes a term p writes too, fused before p or
\* after it, gives the same index, which neither record alone gives
C2_Witness ==
    /\ last_merge.doc_id # None
    /\ IsWellFormedPartial(last_merge.partial_index, last_merge.doc_id)
    /\ \E d2 \in DocIds \ {last_merge.doc_id} : \E q \in WellFormedPartials(d2) :
           LET qFirst == merge_partial_index(
                             merge_partial_index(index_before, q, d2),
                             last_merge.partial_index, last_merge.doc_id)
               qLast == merge_partial_index(global_inverted_index, q, d2)
           IN  /\ \E t \in DOMAIN q \cap DOMAIN last_merge.partial_index :
                      Stored(index_before, t, d2) >= 0
               /\ qFirst = qLast
               /\ qLast # global_inverted_index
               /\ qLast # merge_partial_index(index_before, q, d2)

\* C3: a term of the merged record whose entry is not a map, or holds no
\* non-negative integer under the record's doc_id, leaves the index as it was
\* on that term; every other term of the record is written.
C3_PerTermValidation ==
    last_merge.doc_id # None =>
        \A t \in DOMAIN last_merge.partial_index :
            IF LastEntryValid(t)
            THEN Stored(global_inverted_index, t, last_merge.doc_id)
                     = last_merge.partial_index[t].items[last_merge.doc_id].val
            ELSE SameOnTerm(global_inverted_index, index_before, t)

\* a record with a term keyed by another document and a valid term: the
\* first left no trace, the second was written
C3_Witness ==
    /\ last_merge.doc_id # None
    /\ \E bad \in DOMAIN last_merge.partial_index :
       \E good \in DOMAIN last_merge.partial_index :
           /\ ~LastEntryValid(bad)
           /\ last_merge.partial_index[bad].type = "dict"
           /\ DOMAIN last_merge.partial_index[bad].items # {}
           /\ last_merge.doc_id \notin DOMAIN last_merge.partial_index[bad].items
           /\ bad \notin DOMAIN global_inverted_index
           /\ LastEntryValid(good)
           /\ Stored(index_before, good, last_merge.doc_id) = -1
           /\ Stored(global_inverted_index, good, last_merge.doc_id) >= 0

\* the documents and terms an index of SpecFuse can mention
FrameDocs == DocIds \cup {ForeignDocId}
FrameTerms == Terms \cup Keys(index_before) \cup Keys(global_inverted_index)

\* the last merge was asked to write the pair (t, d)
AskedToWrite(t, d) ==
    /\ d = last_merge.doc_id
    /\ t \in DOMAIN last_merge.partial_index
    /\ LastEntryValid(t)

\* C26: fuse never removes or alters entries it was not asked to write.
\* After fuse(G, partial, d) every pair (t', d') with d' # d, and every pair
\* (t', d) whose term is absent from the partial or was skipped as invalid,
\* is in G with the frequency it had before, or absent as before; the pairs
\* of an earlier version of d whose terms the new record does not name stay.
C26_Frame ==
    last_merge.doc_id # None =>
        \A t \in FrameTerms : \A d \in FrameDocs :
            ~AskedToWrite(t, d) =>
                Stored(global_inverted_index, t, d) = Stored(index_before, t, d)

\* the document was fused again with another term set: the pair of the
\* term that disappeared is still there, next to the new pair
C26_Witness ==
    /\ last_merge.doc_id = "d1.txt"
    /\ DOMAIN last_merge.partial_index = {"fox"}
    /\ LastEntryValid("fox")
    /\ Stored(index_before, "quick", "d1.txt") = 1
    /\ Stored(index_before, "fox", "d1.txt") = -1
    /\ Stored(global_inverted_index, "quick", "d1.txt") = 1
    /\ Stored(global_inverted_index, "fox", "d1.txt")
           = last_merge.partial_index["fox"].items["d1.txt"].val

\* C29: fusion is idempotent.  Fusing the record that was fused last, for
\* the same doc_id, once more leaves the global index as the first fusion
\* left it, whatever the record holds.
C29_Idempotent ==
    [][(last_merge.doc_id # None /\ last_merge' = last_merge) =>
          global_inverted_index' = global_inverted_index]_vars

\* a record that changed the index was fused a second time
C29_Witness ==
    /\ last_merge.doc_id # None
    /\ \E t \in DOMAIN last_merge.partial_index :
          /\ LastEntryValid(t)
          /\ last_merge.partial_index[t].items[last_merge.doc_id].val > 0
    /\ index_before = global_inverted_index

\* every frequency the index stores satisfies the bound
AllStoredAtLeast(index, least) ==
    \A t \in Keys(index) : \A d \in Keys(index[t]) :
        index[t][d] \in Int /\ index[t][d] >= least

\* the records calculate_tf produces for a document, as the handler gets them
WorkerRecords(doc_id) ==
    {DecodedPartialIndex(calculate_tf(tokens, doc_id)) :
         tokens \in SeqsUpTo(Terms, MaxFreq + 1)}

\* C31: frequency invariant of the global index.  In every state reached
\* from the empty index by fusing records of any shape every stored
\* frequency is an integer >= 0; and fusing a record produced by
\* calculate_tf into an index whose frequencies are all >= 1 gives an index
\* whose frequencies are all >= 1, so an index built from worker records
\* only, starting empty, holds strictly positive frequencies only.
C31_FrequencyInvariant ==
    /\ AllStoredAtLeast(global_inverted_index, 0)
    /\ (/\ last_merge.doc_id # None
        /\ last_merge.partial_index \in WorkerRecords(last_merge.doc_id)
        /\ AllStoredAtLeast(index_before, 1))
           => AllStoredAtLeast(global_inverted_index, 1)

\* a worker record was fused into a non-empty index of positive
\* frequencies and added a pair
C31_Witness ==
    /\ last_merge.doc_id # None
    /\ last_merge.partial_index \in WorkerRecords(last_merge.doc_id)
    /\ index_before # EmptyDict
    /\ AllStoredAtLeast(index_before, 1)
    /\ global_inverted_index # index_before
    /\ AllStoredAtLeast(global_inverted_index, 1)

\* a record offered a negative frequency and the pair was not stored
C31_WitnessNegative ==
    /\ last_merge.doc_id = "d1.txt"
    /\ "fox" \in DOMAIN last_merge.partial_index
    /\ last_merge.partial_index["fox"] = PyDict("d1.txt" :> PyInt(-1))
    /\ Stored(global_inverted_index, "fox", "d1.txt") = -1
    /\ index_before = EmptyDict
(***************************************************************************)
(* Properties of the results handler and of the pending set, under Spec.   *)
(***************************************************************************)
Handled == lpc = "remove" /\ lpc' = "get"

IsContaminated(record) ==
    \E t \in Keys(record.partial_index) :
        /\ IsDictValue(record.partial_index[t])
        /\ record.doc_id \notin Keys(record.partial_index[t].items)

\* C4: when the listener handles a record of doc_id d whose inner maps are
\* keyed by another document while d is pending, the merge leaves G as it
\* was and d is still pending when the handler returns.
C4_InvalidRecordDropped ==
    [][/\ (lpc = "fuse" /\ IsContaminated(data))
            => global_inverted_index' = global_inverted_index
       /\ (Handled /\ IsContaminated(data)
              /\ data.doc_id \in dispatched_docs_pending_results)
            => data.doc_id \in dispatched_docs_pending_results']_vars

\* C5: when the listener has finished handling the record a worker
\* published for a dispatched task, the record's doc_id is not pending.
C5_PendingLiveness ==
    [][(Handled /\ data.serial > 0)
          => data.doc_id \notin dispatched_docs_pending_results']_vars

C5_Witness ==
    /\ lpc = "get"
    /\ data # NoData
    /\ data.serial > 0
    /\ \E t \in Keys(global_inverted_index) :
           data.doc_id \in Keys(global_inverted_index[t])
    /\ data.doc_id \notin dispatched_docs_pending_results
    /\ \A u \in unfused_tasks : u.serial # data.serial

\* a dispatch of doc_id is between its registration and its end
InDispatch(doc_id) ==
    /\ cur_task.doc_id = doc_id
    /\ rpc \notin {"idle", "scan", "acquire_add", "dispatched", "failed"}

\* the listener is between the merge of a record of doc_id and the removal
InHandler(doc_id) ==
    /\ lpc \in {"acquire_remove", "remove"}
    /\ data.doc_id = doc_id

HasUnfused(doc_id) == \E u \in unfused_tasks : u.doc_id = doc_id

\* the task pushed last is still on a queue or in a worker's hands
LastTaskOutstanding(doc_id) ==
    \E w \in Workers :
        \/ /\ worker_task[w].doc_id = doc_id
           /\ worker_task[w].serial = n_dispatched
        \/ \E i \in DOMAIN task_queues[w] :
               /\ task_queues[w][i].doc_id = doc_id
               /\ task_queues[w][i].serial = n_dispatched

\* C6 (as stated): outside a dispatch and outside the handler, d is pending
\* exactly when a pushed task for d has not been fused; and when d was
\* pushed twice, d is pending after the first result is fused while the
\* second task is queued or being processed.
C6_PendingExactly ==
    \A d \in DocIds :
        /\ (~InDispatch(d) /\ ~InHandler(d) /\ n_foreign = 0)
              => (d \in dispatched_docs_pending_results <=> HasUnfused(d))
        /\ (/\ n_foreign = 0
            /\ rpc \in {"idle", "scan"}
            /\ ~InHandler(d)
            /\ LastTaskOutstanding(d)
            /\ \E u \in unfused_tasks : u.doc_id = d /\ u.serial = n_dispatched)
              => d \in dispatched_docs_pending_results

\* C6 (amended): a pending doc_id has a dispatch in progress, a pushed task
\* whose result has not been fused, or a record the handler has merged and
\* is about to clear.
C6_PendingOnlyIf ==
    \A d \in DocIds :
        d \in dispatched_docs_pending_results
            => InDispatch(d) \/ HasUnfused(d) \/ InHandler(d)

\* d was pushed twice, the first result is fused and cleared d, the second
\* task is still outstanding
C6_Witness ==
    \E d \in DocIds :
        /\ LastTaskOutstanding(d)
        /\ HasUnfused(d)
        /\ n_dispatched >= 2
        /\ lpc = "get" /\ data # NoData /\ data.doc_id = d /\ data.serial = 1
        /\ d \notin dispatched_docs_pending_results
        /\ n_foreign = 0

HoldsTask(serial) ==
    \/ \E w \in Workers : worker_task[w].serial = serial
    \/ \E w \in Workers : \E i \in DOMAIN task_queues[w] : task_queues[w][i].serial = serial
    \/ \E u \in unfused_tasks : u.serial = serial

\* C7: a dispatch that finds no worker-status key, or skips every worker it
\* enumerated, ends in failure: the file is in the failure report and not
\* among the dispatched ones, no queue received its task, and its doc_id is
\* not pending.
C7_NoWorkerNoSideEffect ==
    (rpc = "failed" /\ push_outcome \in {"no_keys", "no_candidates"})
        => /\ <<cur_task.doc_id, "Failed to push">> \in failed_files_details
           /\ cur_task.doc_id \notin successful_files
           /\ ~HoldsTask(cur_task.serial)
           /\ cur_task.doc_id \notin dispatched_docs_pending_results

C7_Witness ==
    /\ rpc = "failed"
    /\ push_outcome = "no_candidates"
    /\ cur_task.doc_id \notin dispatched_docs_pending_results
    /\ \A w \in Workers : task_queues[w] = <<>>
(***************************************************************************)
(* Properties of the worker selection, under SpecSelect.                   *)
(***************************************************************************)
CandidateOf(worker_id) ==
    CHOOSE c \in {candidate_workers[i] : i \in DOMAIN candidate_workers} :
        c.worker_id = worker_id

CandidateIds == {candidate_workers[i].worker_id : i \in DOMAIN candidate_workers}

\* C8: the selected worker is a candidate, no candidate has a smaller
\* queue_length, none with the same queue_length has a smaller cpu + ram,
\* and the task is pushed onto the queue of the selected worker only.
C8_LoadAwareSelection ==
    /\ rpc = "rpush" =>
          /\ selected_worker_id \in CandidateIds
          /\ \A i \in DOMAIN candidate_workers :
                LET c == candidate_workers[i]
                    s == CandidateOf(selected_worker_id)
                IN  /\ c.queue_length >= s.queue_length
                    /\ c.queue_length = s.queue_length => c.load_metric >= s.load_metric
    /\ rpc = "dispatched" =>
          \A w \in Workers :
              (\E i \in DOMAIN task_queues[w] : task_queues[w][i].serial = cur_task.serial)
                  <=> w = selected_worker_id

\* the candidate enumerated first has the queue_length of the selected
\* worker and a greater load
C8_Witness ==
    /\ rpc = "rpush"
    /\ \E i \in DOMAIN candidate_workers :
          /\ candidate_workers[i].queue_length = CandidateOf(selected_worker_id).queue_length
          /\ candidate_workers[i].load_metric > CandidateOf(selected_worker_id).load_metric
          /\ candidate_workers[i].worker_id = worker_status_keys[1]

\* C9: a worker whose TTL read was negative and not -1 is neither a
\* candidate nor selected; a worker whose TTL read was -1 is a candidate
\* when the enumeration ends.
C9_TtlFilter ==
    /\ \A w \in DOMAIN ttl_seen :
          (ttl_seen[w] < 0 /\ ttl_seen[w] # -1)
              => w \notin CandidateIds /\ selected_worker_id # w
    /\ rpc \in {"sort", "rpush"} =>
          \A w \in DOMAIN ttl_seen : ttl_seen[w] = -1 => w \in CandidateIds

\* the skipped worker has the shorter queue; the selected one has no expiry
C9_Witness ==
    /\ rpc = "rpush"
    /\ ttl_seen[selected_worker_id] = -1
    /\ \E w \in DOMAIN ttl_seen :
          /\ ttl_seen[w] = -2
          /\ Len(task_queues[w]) < CandidateOf(selected_worker_id).queue_length

\* C10: among the candidates whose (queue_length, cpu + ram) equals that of
\* the selected worker, the selected one has the smallest worker_id.
C10_LexicographicTieBreak ==
    rpc = "rpush" =>
        \A i \in DOMAIN candidate_workers :
            LET c == candidate_workers[i]
                s == CandidateOf(selected_worker_id)
            IN  (c.queue_length = s.queue_length /\ c.load_metric = s.load_metric)
                    => WorkerRank[selected_worker_id] <= WorkerRank[c.worker_id]
(***************************************************************************)
(* Properties of the order of the steps of a dispatch, under Spec.         *)
(***************************************************************************)
\* the tasks that a worker can see or has taken
VisibleTasks ==
    UNION {{task_queues[w][i] : i \in DOMAIN task_queues[w]} : w \in Workers}
        \cup {worker_task[w] : w \in {v \in Workers : worker_task[v] # NoTask}}

\* the result records of dispatched tasks that are delivered or being handled
VisibleResults ==
    {inbox[i].serial : i \in DOMAIN inbox}
        \cup (IF lpc \in {"acquire_fuse", "fuse", "acquire_remove", "remove"}
              THEN {data.serial} ELSE {})

\* C11: every task on a queue or in a worker's hands, and every result
\* delivered to or handled by the listener, belongs to a dispatch that has
\* inserted its doc_id into the pending set; and when a dispatch has failed,
\* its doc_id is out of the pending set before the failure is reported.
C11_InsertBeforePush ==
    /\ \A task \in VisibleTasks : task.serial \in registered
    /\ \A serial \in VisibleResults : serial > 0 => serial \in registered
    /\ \A entry \in failed_files_details :
          (rpc \in {"failed", "scan"} /\ entry[2] # "Skipped")
              => entry[1] \notin dispatched_docs_pending_results

\* the task has just been pushed; its doc_id was inserted before and the
\* listener has not handled anything for it
C11_Witness ==
    /\ rpc = "dispatched"
    /\ cur_task \in VisibleTasks
    /\ cur_task.serial \in registered
    /\ cur_task.doc_id \in dispatched_docs_pending_results

\* the dispatcher's broker commands of one dispatch, from the enumeration to
\* the push
InPush == rpc \in {"keys", "ttl", "hgetall", "llen", "sort", "rpush"}

\* C12: from the insertion of the doc_id into the pending set to the push of
\* the task, the request handler holds the mutex, so that the listener
\* cannot take it in between.
C12_PairingAtomic ==
    /\ [](InPush => index_lock = "request")
    /\ [][(InPush /\ lpc = "acquire_remove") => lpc' # "remove"]_vars

-----------------------------------------------------------------------------
\* Properties of the coordinator's shared state and endpoints, under SpecApi.

\* the places where the request thread is inside a `with index_lock:` block
RequestSections ==
    {"add", "discard", "lookup", "looked_up", "status", "save", "read", "swap", "final_save"}

\* the places where the listener thread is inside the Fuser's locked region
\* or the handler's `with index_lock:` block
ListenerSections == {"fuse", "remove"}

\* C13: mutual exclusion on coordinator state.  A thread that is inside a
\* section reading or writing the global index or mutating the pending set
\* holds the coordinator mutex, so the request thread and the listener are
\* never inside such sections together; and every step that changes the
\* global index (a fuse, the rebinding of a reload), changes the pending set
\* (add, remove, clear) or computes a query answer from the index is taken by
\* the thread that holds the mutex.
C13_MutualExclusion ==
    /\ [](rpc \in RequestSections => index_lock = "request")
    /\ [](lpc \in ListenerSections => index_lock = "listener")
    /\ [](~(rpc \in RequestSections /\ lpc \in ListenerSections))
    /\ [][(global_inverted_index' # global_inverted_index
             \/ dispatched_docs_pending_results' # dispatched_docs_pending_results)
          => \/ index_lock = "request" /\ rpc \in RequestSections /\ rpc' # rpc
             \/ index_lock = "listener" /\ lpc \in ListenerSections /\ lpc' # lpc]_vars
    /\ [][(response.docs' # response.docs /\ response.docs' # <<>>)
          => index_lock = "request" /\ rpc = "lookup"]_vars

\* the reload is rebinding the index while the listener, having fused a
\* record, waits for the mutex to remove its doc_id from the pending set
C13_Witness ==
    /\ rpc = "swap"
    /\ index_lock = "request"
    /\ lpc = "acquire_remove"
    /\ data.doc_id \in dispatched_docs_pending_results

\* the serials of the tasks that are on a queue or in a worker's hands
VisibleTaskSerials == {task.serial : task \in VisibleTasks}

\* the step takes doc_id out of the pending set in one of the ways the
\* coordinator has: the listener's handler has a record naming doc_id, a
\* dispatch of doc_id has failed, or a reload clears the set
LeavesPendingByCode(doc_id) ==
    \/ lpc = "remove" /\ data.doc_id = doc_id /\ lpc' = "get"
    \/ rpc = "discard" /\ cur_task.doc_id = doc_id /\ rpc' = "failed"
    \/ rpc = "swap" /\ rpc' = "return"

\* the step is the listener's removal for the fused result of a submission
\* of doc_id later than the task `lost`
LeavesPendingByResubmission(lost) ==
    /\ lpc = "remove" /\ lpc' = "get"
    /\ data.doc_id = lost.doc_id
    /\ data.serial > lost.serial

LeavesPending(doc_id) ==
    /\ doc_id \in dispatched_docs_pending_results
    /\ doc_id \notin dispatched_docs_pending_results'

EmptyTokenTasks == {lost \in lost_tasks : lost.why = "no_tokens"}

\* C16 as stated: a worker that pops a task of zero tokens publishes nothing,
\* and the task's doc_id stays in P until a re-submission of the doc_id is
\* fused or a reload clears P.
C16_StaysUntilResubmission ==
    [][\A lost \in EmptyTokenTasks :
          LeavesPending(lost.doc_id)
             => \/ LeavesPendingByResubmission(lost)
                \/ rpc = "swap" /\ rpc' = "return"]_vars

\* C16: empty-token documents.  A worker that ends the processing of a task
\* whose content normalizes to zero tokens publishes nothing and puts the
\* task on no queue; no record of that task ever reaches the listener, and
\* the task is never again on a queue; the task's doc_id leaves P only when
\* the handler has a record naming the doc_id (the result of an earlier or a
\* later submission, or another record), when a later dispatch of the doc_id
\* fails, or when a reload clears P.
C16_EmptyTokensNoResult ==
    /\ [][\A w \in SysWorkers :
             (worker_task[w] # NoTask /\ worker_task'[w] = NoTask
                 /\ normalize_text(worker_task[w].content) = <<>>)
             => inbox' = inbox /\ task_queues' = task_queues]_vars
    /\ [](\A lost \in EmptyTokenTasks :
             lost.serial \notin VisibleResults /\ lost.serial \notin VisibleTaskSerials)
    /\ [][\A lost \in EmptyTokenTasks :
             LeavesPending(lost.doc_id) => LeavesPendingByCode(lost.doc_id)]_vars

\* the document of a zero-token task is pending while nothing is queued,
\* in a worker's hands, on the channel or being handled
C16_Witness ==
    /\ \E lost \in EmptyTokenTasks : lost.doc_id \in dispatched_docs_pending_results
    /\ rpc = "idle"
    /\ VisibleTasks = {}
    /\ inbox = <<>>
    /\ lpc = "get"

UndeliveredTasks == {lost \in lost_tasks : lost.why = "no_subscriber"}

\* C17 as stated: a result published while the listener is not subscribed is
\* not redelivered, the task is not pushed again, and the doc_id stays in P
\* unless the document is submitted again and that result is fused.
C17_StaysUnlessResubmitted ==
    /\ [](\A lost \in UndeliveredTasks :
             lost.serial \notin VisibleResults /\ lost.serial \notin VisibleTaskSerials)
    /\ [][\A lost \in UndeliveredTasks :
             LeavesPending(lost.doc_id) => LeavesPendingByResubmission(lost)]_vars

\* C17: lost results are never recovered automatically.  A worker that
\* publishes while the listener is not subscribed leaves the channel as it
\* was; the record of that task never reaches the listener afterwards, and
\* the task is never again on a queue or in a worker's hands; the doc_id
\* leaves P only when the handler has a record naming the doc_id (the result
\* of another submission, or another record), when a later dispatch of the
\* doc_id fails, or when a reload clears P.
C17_LostResultNotRecovered ==
    /\ [][\A w \in SysWorkers :
             (worker_task[w] # NoTask /\ worker_task'[w] = NoTask /\ ~subscribed)
             => inbox' = inbox /\ task_queues' = task_queues]_vars
    /\ [](\A lost \in UndeliveredTasks :
             lost.serial \notin VisibleResults /\ lost.serial \notin VisibleTaskSerials)
    /\ [][\A lost \in UndeliveredTasks :
             LeavesPending(lost.doc_id) => LeavesPendingByCode(lost.doc_id)]_vars

\* the result of a task was published during a reconnect of the listener;
\* the listener reads again, nothing is on its way, the document is pending
C17_Witness ==
    /\ \E lost \in UndeliveredTasks : lost.doc_id \in dispatched_docs_pending_results
    /\ rpc = "idle"
    /\ VisibleTasks = {}
    /\ subscribed
    /\ inbox = <<>>
    /\ lpc = "get"
    /\ registered # {}
    /\ \E task \in pushed : task.serial \in {lost.serial : lost \in UndeliveredTasks}

-----------------------------------------------------------------------------
\* Properties of the search endpoint, under SpecQuery.

\* the list holds one pair (d, f) for each entry d -> f of the map, and no other
ExactlyEntries(docs, doc_freq_map) ==
    /\ Len(docs) = Cardinality(Keys(doc_freq_map))
    /\ \A i \in DOMAIN docs :
          docs[i][1] \in Keys(doc_freq_map) /\ docs[i][2] = doc_freq_map[docs[i][1]]
    /\ \A d \in Keys(doc_freq_map) : \E i \in DOMAIN docs : docs[i][1] = d

NonIncreasing(docs) ==
    \A i \in DOMAIN docs : \A j \in DOMAIN docs : i < j => docs[i][2] >= docs[j][2]

\* C14: query result.  When the lookup for the first stem s of a query has
\* been made and the mutex is still held, the response holds exactly one pair
\* (d, f) for each entry d -> f of G[s]; and the docs of every answer to a
\* search are in non-increasing order of f.
C14_QueryResult ==
    /\ (rpc = "looked_up" /\ search_stem \in Keys(global_inverted_index))
          => /\ index_lock = "request"
             /\ ExactlyEntries(response.docs, global_inverted_index[search_stem])
    /\ (search_term.given /\ response.status = 200) => NonIncreasing(response.docs)

\* three documents answered, not all of one frequency, while the listener
\* waits for the mutex with a result for one of them
C14_Witness ==
    /\ rpc = "looked_up"
    /\ Len(response.docs) = 3
    /\ response.docs[1][2] > response.docs[3][2]
    /\ lpc = "acquire_fuse"
    /\ data.doc_id \in {response.docs[i][1] : i \in DOMAIN response.docs}

\* C15: query edge cases.  A search whose term is empty or whitespace only is
\* answered 400 without any lookup (it never asks for the mutex and reads no
\* stem), and 400 is answered to no other search; a search whose term
\* normalizes to no stem is answered 200 with an empty docs list, without a
\* lookup; a lookup whose stem is not a key of G yields 200 with an empty
\* docs list.
C15_QueryEdgeCases ==
    /\ (search_term.given /\ search_term.text = <<>>)
          => /\ rpc = "return"
             /\ search_stem = None
             /\ response = [status |-> 400, docs |-> <<>>, detail |-> <<>>]
    /\ response.status = 400 => (search_term.given /\ search_term.text = <<>>)
    /\ (search_term.given /\ search_term.text # <<>> /\ normalize_text(search_term.text) = <<>>)
          => /\ rpc = "return"
             /\ search_stem = None
             /\ response = [status |-> 200, docs |-> <<>>, detail |-> <<>>]
    /\ (rpc = "looked_up" /\ search_stem \notin Keys(global_inverted_index))
          => response = [status |-> 200, docs |-> <<>>, detail |-> <<>>]

\* a blank term has been answered 400 by a coordinator whose index is not empty
C15_Witness ==
    /\ search_term = [given |-> TRUE, text |-> <<>>]
    /\ response.status = 400
    /\ Keys(global_inverted_index) # {}

\* the other two cases: a stopword alone, a stem that is no key of the index
C15_WitnessNoStem ==
    /\ search_term = [given |-> TRUE, text |-> <<"The">>]
    /\ response.status = 200
    /\ Keys(global_inverted_index) # {}

C15_WitnessAbsentStem ==
    /\ rpc = "looked_up"
    /\ search_stem = "quick"
    /\ Keys(global_inverted_index) = {"fox"}

-----------------------------------------------------------------------------
\* Properties of the task queues and of the order of fusion, under SpecWork.

PushedSerials == {task.serial : task \in pushed}

\* the positions of the queue of w that hold the task of this serial
QueuePositions(w, serial) == {i \in DOMAIN task_queues[w] : task_queues[w][i].serial = serial}

\* the workers that hold the task of this serial, popped and not yet processed
Holders(serial) == {w \in Workers : worker_task[w] # NoTask /\ worker_task[w].serial = serial}

\* the records of this serial on the channel or with the handler
ResultsOf(serial) ==
    Cardinality({i \in DOMAIN inbox : inbox[i].serial = serial})
       + (IF lpc \in {"acquire_fuse", "fuse", "acquire_remove", "remove"} /\ data.serial = serial
          THEN 1 ELSE 0)

\* the number of places the task of this serial is at
Places(serial) ==
    Cardinality(UNION {{<<w, i>> : i \in QueuePositions(w, serial)} : w \in Workers})
       + Cardinality(Holders(serial))

\* C18: at-most-once task consumption.  A pushed task is at one place at
\* most, and that place is the queue of the worker it was pushed for or the
\* hands of that worker; while it is there no result of it exists and it is
\* not counted lost; of one task there is never more than one result record;
\* a task comes onto a queue only by its push, so a task that was popped, or
\* whose processing failed, is on no queue afterwards; a result record is
\* published only by the worker that holds the task, which gives it up.
C18_AtMostOnce ==
    /\ [](\A task \in pushed :
             /\ Places(task.serial) <= 1
             /\ ResultsOf(task.serial) <= 1
             /\ \A w \in Workers :
                   (QueuePositions(w, task.serial) # {} \/ w \in Holders(task.serial))
                      => /\ w = task.worker_id
                         /\ ResultsOf(task.serial) = 0
                         /\ \A lost \in lost_tasks : lost.serial # task.serial)
    /\ [](\A task \in VisibleTasks : task.serial \in PushedSerials)
    /\ [][\A task \in pushed : \A w \in Workers :
             (QueuePositions(w, task.serial) = {}) => (QueuePositions(w, task.serial))' = {}]_vars
    /\ [][\A task \in pushed :
             ResultsOf(task.serial)' > ResultsOf(task.serial)
                => /\ Holders(task.serial) = {task.worker_id}
                   /\ Holders(task.serial)' = {}]_vars
    /\ [][\A w \in Workers :
             (worker_task[w] # NoTask /\ worker_task'[w] = NoTask) => task_queues' = task_queues]_vars

\* both workers have popped a task; one has lost its task to an error, the
\* result of the other waits on the channel
C18_Witness ==
    /\ Cardinality(pushed) = 2
    /\ {task.worker_id : task \in pushed} = {"A", "B"}
    /\ \E lost \in lost_tasks : lost.why = "error" /\ lost.serial \in PushedSerials
    /\ \E i \in DOMAIN inbox : inbox[i].serial \in PushedSerials
    /\ VisibleTasks = {}

\* the serials of the tasks pushed for w before the task of this serial
PushedBefore(w, serial) == {task.serial : task \in {t \in pushed : t.worker_id = w /\ t.serial < serial}}

\* C19: per-worker FIFO.  Tasks are pushed in the order of their serials.  On
\* each queue the tasks stand in that order, and the task a worker holds was
\* pushed before every task on its queue; a worker pops only when it holds no
\* task, and the task it pops was pushed for it after every task it has had,
\* all of which are finished; the records of one worker stand on the channel
\* in the order its tasks were pushed, after the record the handler has.
C19_PerWorkerFifo ==
    /\ [](\A w \in Workers :
             /\ \A i \in DOMAIN task_queues[w] : \A j \in DOMAIN task_queues[w] :
                   i < j => task_queues[w][i].serial < task_queues[w][j].serial
             /\ worker_task[w] # NoTask
                   => \A i \in DOMAIN task_queues[w] :
                         worker_task[w].serial < task_queues[w][i].serial)
    /\ [][\A w \in Workers :
             (worker_task'[w] # NoTask /\ worker_task'[w] # worker_task[w])
                => /\ worker_task[w] = NoTask
                   /\ \A serial \in PushedBefore(w, worker_task'[w].serial) : Places(serial)' = 0
                   /\ \A i \in DOMAIN inbox' :
                         inbox'[i].worker_id = w => inbox'[i].serial < worker_task'[w].serial]_vars
    /\ [](\A i \in DOMAIN inbox : \A j \in DOMAIN inbox :
             (i < j /\ inbox[i].worker_id = inbox[j].worker_id)
                => inbox[i].serial < inbox[j].serial)
    /\ [](\A i \in DOMAIN inbox :
             (lpc \in {"acquire_fuse", "fuse", "acquire_remove", "remove"}
                 /\ data.worker_id = inbox[i].worker_id)
                => data.serial < inbox[i].serial)

\* two tasks were pushed for one worker; both results are on the channel
C19_Witness ==
    /\ Len(inbox) = 2
    /\ inbox[1].worker_id = inbox[2].worker_id
    /\ inbox[1].serial = 1
    /\ inbox[2].serial = 2
    /\ \A task \in pushed : task.worker_id = inbox[1].worker_id

InHandlerAfterFuse == lpc \in {"acquire_remove", "remove"}

\* C20: arrival-order fusion for repeated submissions.  The listener hands
\* the records to the handler one at a time, each time the oldest record on
\* the channel, whatever the serials; the fuse of a record writes its
\* frequency for every term it has, so that after it and until the next
\* record is taken G[t][doc_id] is the frequency of the record that arrived
\* last, also when a submission made later was fused before it.
C20_ArrivalOrderFusion ==
    /\ [][(lpc = "get" /\ lpc' # "get")
             => /\ inbox # <<>>
                /\ data' = inbox[1]
                /\ inbox' = Tail(inbox)
                /\ lpc' = "acquire_fuse"]_vars
    /\ [][(lpc # "get" /\ lpc # "connect") => (data' = data /\ Len(inbox') >= Len(inbox))]_vars
    /\ [](InHandlerAfterFuse
             => \A term \in Keys(data.partial_index) :
                   /\ term \in Keys(global_inverted_index)
                   /\ data.doc_id \in Keys(global_inverted_index[term])
                   /\ global_inverted_index[term][data.doc_id]
                         = data.partial_index[term].items[data.doc_id].val)

\* the document was submitted as "fox foxes" and then as "quick fox"; the
\* result of the second submission was fused first, that of the first
\* submission last: the index has the frequency of the first submission
C20_Witness ==
    /\ InHandlerAfterFuse
    /\ data.serial = 1
    /\ Cardinality(pushed) = 2
    /\ unfused_tasks = {}
    /\ "quick" \in Keys(global_inverted_index)
    /\ global_inverted_index["quick"]["d1.txt"] = 1
    /\ global_inverted_index["fox"]["d1.txt"] = 2

-----------------------------------------------------------------------------
\* Properties of the worker process, under SpecBeat.

\* thread i of worker w ends a tick in this step, and no broker command of
\* the tick raised
TickEndsWell(w, i) ==
    /\ i \in DOMAIN status_threads[w]
    /\ status_threads[w][i].pc = "expire"
    /\ status_threads'[w][i].pc = "measure"
    /\ status_threads'[w][i].tick_ok

\* C21: heartbeat keeps the worker live.  After every tick of a status
\* thread during which the broker was reachable, the key worker_status:<self>
\* exists and its TTL is 3 * interval: on ticks that wrote cpu and ram, on
\* ticks that skipped the write, and when the key was absent before the tick.
C21_TickKeepsLive ==
    [][\A w \in BeatWorkers : \A i \in DOMAIN status_threads[w] :
          TickEndsWell(w, i) => worker_status'[w].ttl = 3 * interval]_vars

\* the same for the ticks that begin with the key present or that write
C21_TickRefreshesPresentKey ==
    [][\A w \in BeatWorkers : \A i \in DOMAIN status_threads[w] :
          (TickEndsWell(w, i) /\ worker_status[w].ttl # KeyMissing)
             => worker_status'[w].ttl = 3 * interval]_vars

\* C22: single heartbeat emitter.  A worker process never has more than one
\* status thread running.
C22_SingleEmitter ==
    \A w \in BeatWorkers : Len(status_threads[w]) <= 1

(***************************************************************************)
(* Claims about the listener, the shutdown and the checkpoint.             *)
(***************************************************************************)
\* the places of the listener thread inside handle_partial_index_message
HandlerPlaces == {"acquire_fuse", "fuse", "acquire_remove", "remove"}

\* the listener takes the first message out of get_message and stays in its
\* loop
ReadStep ==
    /\ lpc = "get"
    /\ inbox # <<>>
    /\ inbox' = Tail(inbox)
    /\ lpc' \notin {"connect", "done"}

\* C23: results subscription delivery.  A message the running listener
\* receives while subscribed leaves the channel once; if it decodes into a
\* partial-index record the handler is entered with exactly that record, if
\* it fails JSON decoding or model validation the handler is not entered,
\* index and pending set stay as they are, the failure is logged and the
\* listener, still subscribed, is back at reading with the following
\* messages in front of it.  The handler is entered in no other way.
C23_DeliveryOnce ==
    /\ [][ReadStep =>
            IF inbox[1].valid
            THEN /\ lpc' = "acquire_fuse"
                 /\ data' = inbox[1]
            ELSE /\ lpc' = "get"
                 /\ data' = data
                 /\ subscribed'
                 /\ decode_errors' = decode_errors + 1
                 /\ global_inverted_index' = global_inverted_index
                 /\ dispatched_docs_pending_results' = dispatched_docs_pending_results]_vars
    /\ [][(lpc' = "acquire_fuse" /\ lpc # "acquire_fuse") => ReadStep /\ inbox[1].valid]_vars
    /\ [][data' # data => ReadStep /\ inbox[1].valid]_vars
    /\ [][Len(inbox') < Len(inbox) =>
            ReadStep \/ (inbox' = <<>> /\ lpc' \in {"connect", "done"})]_vars
    /\ [](lpc \in HandlerPlaces => data.valid)

\* an undecodable message was dropped and the record published after it is
\* in the handler
C23_Witness ==
    /\ decode_errors = 1
    /\ n_foreign = 2
    /\ lpc = "acquire_fuse"
    /\ data = LifeResult
    /\ inbox = <<>>

\* the places of the request thread once the shutdown has begun
ShutdownPlaces == {"join", "acquire_final_save", "final_save", "off"}

\* C24: listener stop and shutdown.  Once the stop signal is set the
\* listener thread eventually terminates, wherever it was (reading, before
\* a reconnect, inside the handler).  The shutdown sets the signal when it
\* begins to wait for the listener, the wait always ends (by the end of the
\* thread or by the timeout), the save of the checkpoint follows it
\* whatever the place of the listener, and the shutdown completes; a save
\* that succeeds leaves the index of that moment in the file.
C24_StopAndShutdown ==
    /\ \A place \in {"connect", "get"} \cup HandlerPlaces :
          (stop_event /\ lpc = place) ~> (lpc = "done")
    /\ [][lpc = "done" => lpc' = "done"]_vars
    /\ [][(stop_event' /\ ~stop_event) => (rpc = "idle" /\ rpc' = "join")]_vars
    /\ [](rpc \in ShutdownPlaces => stop_event)
    /\ (rpc = "join") ~> (rpc = "final_save")
    /\ (rpc = "final_save") ~> (rpc = "off")
    /\ [][(rpc = "join" /\ rpc' # rpc) => rpc' = "acquire_final_save"]_vars
    /\ [][(rpc = "final_save" /\ rpc' # rpc) =>
            /\ rpc' = "off"
            /\ checkpoint' \in {[state |-> "valid", index |-> global_inverted_index],
                                checkpoint, CorruptFile}]_vars

\* the wait timed out: the checkpoint with the index is written and the
\* shutdown complete while the listener is still inside the handler
C24_Witness ==
    /\ rpc = "off"
    /\ stop_event
    /\ lpc = "acquire_remove"
    /\ global_inverted_index # EmptyDict
    /\ checkpoint = [state |-> "valid", index |-> global_inverted_index]

\* the wait ended because the thread had ended
C24_WitnessJoined ==
    /\ rpc = "acquire_final_save"
    /\ lpc = "done"

\* C27: the Fuser holds the mutex for the whole merge and releases it on
\* every exit path.  While the merge is between its first read and its last
\* write of the index, after any number of terms, the mutex is held by the
\* thread that merges and the other thread is in no section of its own and
\* cannot take the mutex; the step by which the Fuser returns, normally or
\* by an exception in the middle of the merge, leaves the mutex free.
C27_HeldThenReleased ==
    /\ [](lpc = "fuse" => (index_lock = "listener" /\ rpc \notin RequestSections))
    /\ [](merged_terms # {} => lpc = "fuse")
    /\ [][(lpc = "fuse" /\ lpc' = "fuse") => index_lock' = "listener"]_vars
    /\ [][(lpc = "fuse" /\ rpc' # rpc) => rpc' \notin RequestSections]_vars
    /\ [][(lpc = "fuse" /\ lpc' # "fuse") =>
            /\ index_lock' = None
            /\ lpc' \in {"acquire_remove", "get"}
            /\ merged_terms' = {}]_vars

\* an exception after the first of two terms was merged has left the mutex
\* free and the request thread has taken it
C27_Witness ==
    /\ lpc = "get"
    /\ data = LifeResult
    /\ Cardinality(Keys(global_inverted_index) \cap Keys(LifeResult.partial_index)) = 1
    /\ checkpoint = NoFile
    /\ rpc = "read"
    /\ index_lock = "request"

\* the merge is in its middle while the request thread waits for the mutex
C27_WitnessWaiting ==
    /\ lpc = "fuse"
    /\ Cardinality(merged_terms) = 1
    /\ rpc = "acquire_read"

\* the conditions of a checkpoint file that cannot be loaded
UnloadableStates == {"absent", "not_gzip", "bad_json"}

\* C28: a checkpoint load that fails degrades to an empty index.  With the
\* file absent, not gzip or not JSON the coordinator starts with an empty
\* global index, the mutex free and both threads at their start; a reload
\* in the same condition returns an empty index (not what the file holds),
\* releases the mutex and goes on to the swap, which makes the global index
\* empty and answers the request.
C28_LoadFailureEmpty ==
    /\ checkpoint.state \in UnloadableStates =>
          /\ global_inverted_index = EmptyDict
          /\ index_lock = None
          /\ rpc = "idle"
          /\ lpc = "connect"
    /\ [][(rpc = "read" /\ rpc' # rpc /\ checkpoint.state \in UnloadableStates) =>
            /\ loaded_index' = EmptyDict
            /\ index_lock' = None
            /\ rpc' = "acquire_swap"]_vars
    /\ [][(rpc = "swap" /\ rpc' # rpc /\ checkpoint.state \in UnloadableStates) =>
            /\ global_inverted_index' = EmptyDict
            /\ index_lock' = None
            /\ rpc' = "return"]_vars

\* the reload of a file that is not JSON has returned an empty index, and
\* the coordinator goes on to replace its non-empty index with it
C28_Witness ==
    /\ rpc = "swap"
    /\ checkpoint.state = "bad_json"
    /\ checkpoint.index # EmptyDict
    /\ loaded_index = EmptyDict
    /\ global_inverted_index # EmptyDict
    /\ index_lock = "request"

\* the same for a file that is not gzip, and the start without a file
C28_WitnessNotGzip ==
    /\ rpc = "acquire_swap"
    /\ checkpoint.state = "not_gzip"
    /\ loaded_index = EmptyDict
    /\ index_lock = None

\* C25: a result for a non-pending document is still fused.  The merge step
\* of the handler writes the record into the index it was handed by the same
\* rule whatever the pending set holds, and a handler that began after the
\* last reload was handed G; when the handler then finds the doc_id absent
\* from P it leaves P and G as they are, releases the mutex, and the
\* listener is back at reading the next message.
C25_NonPendingFused ==
    /\ [][(lpc = "fuse" /\ lpc' # lpc /\ merge_into_global) =>
            /\ global_inverted_index' =
                  merge_partial_index(global_inverted_index, data.partial_index, data.doc_id)
            /\ dispatched_docs_pending_results' = dispatched_docs_pending_results
            /\ lpc' = "acquire_remove"]_vars
    /\ [][(lpc = "remove" /\ lpc' # lpc
             /\ data.doc_id \notin dispatched_docs_pending_results) =>
            /\ dispatched_docs_pending_results' = dispatched_docs_pending_results
            /\ global_inverted_index' = global_inverted_index
            /\ index_lock' = None
            /\ lpc' = "get"]_vars

\* the result of a dispatched task is handled after a reload cleared P: its
\* terms are in G, which the reload had emptied, and the doc_id is not pending
C25_Witness ==
    /\ lpc = "remove"
    /\ n_dispatched = 1
    /\ failed_files_details = {}
    /\ merge_into_global
    /\ data.serial > 0
    /\ data.doc_id \notin dispatched_docs_pending_results
    /\ Keys(data.partial_index) # {}
    /\ \A term \in Keys(data.partial_index) :
          /\ term \in Keys(global_inverted_index)
          /\ data.doc_id \in Keys(global_inverted_index[term])
          /\ data.doc_id \in Keys(data.partial_index[term].items)
          /\ global_inverted_index[term][data.doc_id]
                = data.partial_index[term].items[data.doc_id].val

(***************************************************************************)
(* Claims about calculate_tf, under SpecTf.                                *)
(***************************************************************************)
\* how often the token occurs in the sequence
Occurrences(tokens, token) == Cardinality({i \in DOMAIN tokens : tokens[i] = token})

\* the sum of the counts the map holds for the tokens in todo
RECURSIVE SumOfCounts(_, _, _)
SumOfCounts(map, todo, doc_id) ==
    IF todo = {} THEN 0
    ELSE LET t == CHOOSE x \in todo : TRUE
         IN  map[t][doc_id] + SumOfCounts(map, todo \ {t}, doc_id)

\* C30: worker term-frequency map.  For the token sequence and the doc_id d
\* of the last call, the map calculate_tf returned has exactly the distinct
\* tokens as keys, every inner map has exactly the one key d, the value for
\* a token is the number of its occurrences in the sequence and at least 1,
\* and the values sum to the length of the sequence.
C30_TermFrequency ==
    tf_doc_id # None =>
        /\ Keys(tf_map) = {tf_tokens[i] : i \in DOMAIN tf_tokens}
        /\ \A t \in Keys(tf_map) :
              /\ Keys(tf_map[t]) = {tf_doc_id}
              /\ tf_map[t][tf_doc_id] = Occurrences(tf_tokens, t)
              /\ tf_map[t][tf_doc_id] >= 1
        /\ SumOfCounts(tf_map, Keys(tf_map), tf_doc_id) = Len(tf_tokens)

\* a sequence with a token that occurs twice, apart, and another token
C30_Witness ==
    /\ tf_doc_id = "d1.txt"
    /\ tf_tokens = <<"fox", "quick", "fox">>
    /\ tf_map = ("fox" :> ("d1.txt" :> 2)) @@ ("quick" :> ("d1.txt" :> 1))

\* no tokens, an empty map
C30_WitnessEmpty ==
    /\ tf_doc_id = "d9.txt"
    /\ tf_tokens = <<>>
    /\ tf_map = EmptyDict

(***************************************************************************)
(* Claims about the load metric, under SpecLoad.                           *)
(***************************************************************************)
\* the value of one field after imputation field by field
FieldLoad(status_data, field) ==
    IF field \in Keys(status_data) /\ status_data[field] \in DOMAIN FloatOfString
    THEN FloatOfString[status_data[field]]
    ELSE 100

\* the hash the dispatcher is about to read
HashRead == worker_status[worker_status_keys[key_idx]].hash

\* the dispatcher reads the hash of a key and computes the load metric
ReadsHash == rpc = "hgetall" /\ rpc' = "llen"

\* C32: conservative imputation in the dispatcher.  When the dispatcher has
\* read the status hash of a candidate, the load metric is the sum of the
\* cpu and the ram value, each the reported number when the field is present
\* and numeric and 100 when it is missing or non-numeric.
C32_PerFieldImputation ==
    [][ReadsHash =>
          load_metric' = FieldLoad(HashRead, "cpu") + FieldLoad(HashRead, "ram")]_vars

\* what the code does: field by field when no field is non-numeric, and 100
\* for both fields as soon as one of them is non-numeric
C32_ImputationAsCoded ==
    [][ReadsHash =>
          load_metric' =
              IF \E field \in Keys(HashRead) : HashRead[field] \notin DOMAIN FloatOfString
              THEN 200
              ELSE FieldLoad(HashRead, "cpu") + FieldLoad(HashRead, "ram")]_vars

(***************************************************************************)
(* Claims about the worker's task loop, under SpecTasks.                   *)
(***************************************************************************)
\* worker w ends the processing of the task it holds without a result
DropsTask(w) ==
    /\ worker_task[w] # NoTask
    /\ worker_task'[w] # worker_task[w]
    /\ \/ "malformed" \in DOMAIN worker_task[w]
       \/ \E lost \in lost_tasks' \ lost_tasks : lost.why = "error"

\* C33: the worker survives bad tasks.  When the task a worker popped is
\* malformed (no JSON, no doc_id, no content) or its processing raises,
\* the step that ends its processing publishes nothing, leaves the queue
\* as it is and leaves the worker without a task in hand, that is, back at
\* the pop of the next task; a worker always either holds a task or is
\* ready to pop.
C33_SurvivesBadTasks ==
    /\ [][\A w \in LoadWorkers : DropsTask(w) =>
              /\ inbox' = inbox
              /\ task_queues' = task_queues
              /\ worker_task'[w] = NoTask]_vars
    /\ [](\A w \in LoadWorkers :
              worker_task[w] = NoTask \/ worker_task[w] \in TaskInputs)

\* after two malformed tasks were dropped the worker has processed the
\* good task behind them and its result is on the channel
C33_Witness ==
    /\ n_foreign = 3
    /\ Cardinality({lost \in lost_tasks : lost.why = "malformed"}) = 2
    /\ task_queues["A"] = <<>>
    /\ worker_task["A"] = NoTask
    /\ Len(inbox) = 1
    /\ inbox[1].doc_id = "d1.txt"

(***************************************************************************)
(* Claims about results, reloads and dispatches that meet.                 *)
(***************************************************************************)
\* the record in the handler offers a non-negative integer for its own
\* document under term t
DataEntryValid(t) ==
    LET e == data.partial_index[t]
    IN  /\ e.type = "dict"
        /\ data.doc_id \in DOMAIN e.items
        /\ e.items[data.doc_id].type = "int"
        /\ e.items[data.doc_id].val >= 0

\* the handler's call of the Fuser returns
FuseReturns == lpc = "fuse" /\ lpc' = "acquire_remove"

\* C34: a fused result is never lost to a concurrent checkpoint reload.
\* Whenever the handler's call of the Fuser returns, in any interleaving
\* with the reload, every valid term of the record is in the global index
\* that queries read from then on, with the record's frequency.
C34_FusedResultVisible ==
    [][FuseReturns =>
          \A t \in Keys(data.partial_index) :
              DataEntryValid(t) =>
                  Stored(global_inverted_index', t, data.doc_id)
                      = data.partial_index[t].items[data.doc_id].val]_vars

\* an earlier dispatch of doc_id was pushed and its result is not fused
EarlierUnfused(doc_id) ==
    \E u \in unfused_tasks : u.doc_id = doc_id /\ u.serial < cur_task.serial

\* the failure path of a dispatch attempt leaves its locked block
FailureBlockEnds == rpc = "discard" /\ rpc' # rpc

\* C35: a failed dispatch does not disturb an earlier one.  When the doc_id
\* of a failed dispatch attempt (no worker, broker error, read error) is in
\* P and an earlier dispatch of it was pushed and is not yet fused, the
\* doc_id is still in P after the failure was handled.
C35_FailedDispatchKeepsPending ==
    [][(/\ FailureBlockEnds
        /\ cur_task.doc_id \in dispatched_docs_pending_results
        /\ EarlierUnfused(cur_task.doc_id))
          => cur_task.doc_id \in dispatched_docs_pending_results']_vars

(***************************************************************************)
(* Claims about the mutex, under SpecLockFair.                             *)
(***************************************************************************)
\* the places where a thread is blocked in the acquisition of the mutex
RequestWaits == rpc \in DOMAIN SectionOf
ListenerWaits == lpc \in {"acquire_fuse", "acquire_remove"}

\* C36: the coordinator mutex cannot self-deadlock.  No thread is at an
\* acquisition of the mutex while it holds the mutex itself; every
\* acquisition is followed by a release; and a thread that waits for the
\* mutex is eventually granted it.
C36_NoSelfDeadlock ==
    /\ [](RequestWaits => index_lock # "request")
    /\ [](ListenerWaits => index_lock # "listener")
    /\ (index_lock = "request") ~> (index_lock = None)
    /\ (index_lock = "listener") ~> (index_lock = None)
    /\ RequestWaits ~> (index_lock = "request")
    /\ ListenerWaits ~> (index_lock = "listener")

\* the reload, its first block left, waits for the mutex of its second
\* block while the listener merges
C36_Witness ==
    /\ rpc = "acquire_swap"
    /\ lpc = "fuse"
    /\ index_lock = "listener"

\* the handler waits for its second block while a failed dispatch removes
\* its doc_id
C36_WitnessDispatch ==
    /\ rpc = "discard"
    /\ index_lock = "request"
    /\ lpc = "acquire_remove"
(***************************************************************************)
(* Properties of a run of dispatches over a fixed set of workers, under    *)
(* SpecBalance.                                                            *)
(***************************************************************************)
LiveWorkers == ExistingKeys(worker_status)

QueueGap(v, w) == Len(task_queues[v]) - Len(task_queues[w])

\* C37: with workers that were live while every queue was empty and stay
\* live, dispatches made one after the other and no pops, the queue lengths
\* of any two live workers differ by at most 1 after every dispatch.
C37_SequentialBalance ==
    \A v, w \in LiveWorkers : QueueGap(v, w) <= 1

\* the second dispatch went to the worker that reports the greater load,
\* because the queue of the other one was longer
C37_Witness ==
    /\ rpc = "dispatched"
    /\ LiveWorkers = SelectWorkers
    /\ \A w \in SelectWorkers : Len(task_queues[w]) = 1
    /\ Cardinality(pushed) = 2
    /\ \E w \in SelectWorkers :
          LoadMetric(worker_status[w].hash) < LoadMetric(worker_status[selected_worker_id].hash)

(***************************************************************************)
(* Properties of the push of a dispatch, under SpecSelect.                 *)
(***************************************************************************)
\* task_queue.py:57  the worker_ids of the status keys that keys() returned
EnumeratedIds == {worker_status_keys[i] : i \in DOMAIN worker_status_keys}

DispatchSucceeds == rpc = "rpush" /\ rpc' = "dispatched"

HoldersOf(serial) ==
    {w \in Workers : \E i \in DOMAIN task_queues[w] : task_queues[w][i].serial = serial}

\* C38: a successful dispatch appends its task to the queue of one worker
\* whose status key was enumerated in the same call and changes no other
\* queue; no queue changes otherwise, and no task is on two queues or twice
\* on one.
C38_PushToOneEnumerated ==
    /\ [][DispatchSucceeds =>
             \E w \in EnumeratedIds :
                 /\ task_queues'[w] = Append(task_queues[w], cur_task)
                 /\ \A v \in Workers \ {w} : task_queues'[v] = task_queues[v]]_vars
    /\ [][task_queues' # task_queues => DispatchSucceeds]_vars
    /\ [](\A v, w \in Workers : \A i \in DOMAIN task_queues[v] : \A j \in DOMAIN task_queues[w] :
             task_queues[v][i].serial = task_queues[w][j].serial => (v = w /\ i = j))

\* the second task is on the queue of a worker whose status key ran out
\* after the enumeration; the first task is on the other queue
C38_Witness ==
    /\ rpc = "dispatched"
    /\ HoldersOf(cur_task.serial) = {selected_worker_id}
    /\ worker_status[selected_worker_id] = AbsentStatus
    /\ \E w \in Workers \ {selected_worker_id} : task_queues[w] # <<>>

(***************************************************************************)
(* Properties of the listener around a failing handler, under SpecLife.    *)
(***************************************************************************)
\* the handler leaves the Fuser without going on to its second block
HandlerRaises == lpc = "fuse" /\ lpc' \notin {"fuse", "acquire_remove"}

\* the listener takes a message from its subscription and keeps the subscription
ReadsMessage == lpc = "get" /\ subscribed' /\ Len(inbox') < Len(inbox)

\* C39: when the handler raises, the listener is back at get_message with
\* the mutex free, its subscription and the unread messages kept; the thread
\* ends only after the stop signal; a message it reads next that decodes is
\* given to the handler.
C39_ListenerSurvivesHandler ==
    /\ [][HandlerRaises =>
             /\ lpc' = "get"
             /\ subscribed /\ subscribed'
             /\ inbox' = inbox
             /\ index_lock' = None]_vars
    /\ [](lpc = "done" => stop_event)
    /\ [][ReadsMessage =>
             /\ inbox' = Tail(inbox)
             /\ Decodes(Head(inbox)) => (data' = Head(inbox) /\ lpc' = "acquire_fuse")]_vars

\* the handler raised after it had stored one of the two terms of a record
\* (the other term is missing in the index), and the listener has read the
\* next record and called the handler with it
C39_Witness ==
    /\ lpc = "acquire_fuse"
    /\ subscribed
    /\ ~stop_event
    /\ data = LifeResult
    /\ "fox" \in Keys(global_inverted_index)
    /\ "d1.txt" \in Keys(global_inverted_index["fox"])
    /\ "quick" \notin Keys(global_inverted_index)

(***************************************************************************)
(* Properties of the submit operation on blank files, under Spec.          *)
(***************************************************************************)
\* the loop of the submit operation consumes a file and is at its next file
\* at once: the `continue` of main.py:187
SkipsBlank == rpc = "scan" /\ rpc' = "scan" /\ files_left' # files_left

\* C40: a file that is empty or has only whitespace is reported as failed,
\* no task is pushed for it and P is left as it was; no task with blank
\* content is on a queue or with a worker.
C40_BlankNeverDispatched ==
    /\ [][SkipsBlank =>
             \E doc_id \in files_left :
                 /\ files_left' = files_left \ {doc_id}
                 /\ <<doc_id, "Skipped">> \in failed_files_details'
                 /\ successful_files' = successful_files
                 /\ dispatched_docs_pending_results' = dispatched_docs_pending_results
                 /\ task_queues' = task_queues
                 /\ pushed' = pushed /\ registered' = registered]_vars
    /\ [](\A w \in Workers :
             /\ \A i \in DOMAIN task_queues[w] : ~IsBlank(task_queues[w][i].content)
             /\ worker_task[w] # NoTask => ~IsBlank(worker_task[w].content))

\* a blank file was skipped by a request that dispatches nothing: no task
\* anywhere, P empty
C40_Witness ==
    /\ rpc = "scan"
    /\ files_left = {}
    /\ <<"d9.txt", "Skipped">> \in failed_files_details
    /\ successful_files = {}
    /\ dispatched_docs_pending_results = {}
    /\ pushed = {}
    /\ \A w \in Workers : task_queues[w] = <<>>

\* a blank version of a document whose earlier task is still queued: P keeps
\* the doc_id of the earlier dispatch
C40_WitnessResubmitted ==
    /\ rpc = "scan"
    /\ <<"d9.txt", "Skipped">> \in failed_files_details
    /\ dispatched_docs_pending_results = {"d9.txt"}
    /\ Cardinality(pushed) = 1

=============================================================================
